---- MODULE Spec2Model ----
(***************************************************************************)
(* A model of the vibechck analysis pipeline: the coordinator              *)
(* (AnalysisEngine.analyze), the five rule modules it drives through the   *)
(* onAnalyze hook, the ignore-rule matcher, the file scanner and the       *)
(* registry client with its cache.                                         *)
(*                                                                         *)
(* Conventions.                                                            *)
(*  - Time is Date.now() counted in minutes.                               *)
(*  - A path is a sequence of segments (what split('/') yields); a         *)
(*    segment is [stem, ext] with ext = path.extname of the segment.  The  *)
(*    string of a path is computed by JoinPath.                            *)
(*  - A source line is abstracted by the matches every regular expression  *)
(*    of the modules finds in it: for each pattern the sequence of match   *)
(*    spans [s, e) in left-to-right order.                                 *)
(*  - The configurations of the model switch off the detectors that are    *)
(*    not modelled (hollow-function, mock-implementation, unlogged-error,  *)
(*    placeholder-comment, over-commenting, hardcoded-production-url,      *)
(*    checkScorecard), and the                                             *)
(*    file universe holds no function above the god-function thresholds    *)
(*    and no expensive API call.                                           *)
(***************************************************************************)
EXTENDS Integers, Sequences, FiniteSets, TLC

VARIABLES
  clock,      \* Date.now(), in minutes
  dir,        \* analyze's directory argument: the root's segments below "/"
  tree,       \* the directory's contents, in glob traversal order
  config,     \* the VibechckConfig handed to analyze
  net,        \* what each registry answers for each package name
  pc,         \* where analyze (or the registry scenario) stands
  files,      \* the file list returned by scanDirectory
  allAlerts,  \* analyze's accumulated alert list
  startTime,  \* analyze's startTime
  reports,    \* the Reports returned so far, oldest first
  cache,      \* VibechckRegistryClient.cache of the hallucination module
  calls,      \* observation: the client calls made, oldest first
  depLog,     \* observation: per analysed dependency, lookup outcome and alerts
  unreadable, \* the files (paths below the root) whose fs.readFile throws
  rejected,   \* observation: how many analyze calls ended with a rejected promise
  scorecards, \* ScorecardClient.cache
  importGraph, \* ArchitectureScanner.importGraph
  tasks       \* the calls of ArchitectureScanner.analyze in progress, by caller

vars == <<clock, dir, tree, config, net, pc, files, allAlerts, startTime,
          reports, cache, calls, depLog, unreadable, rejected, scorecards,
          importGraph, tasks>>

\* ------------------------------------------------------------------ bounds

MaxClock == 1
MaxRuns == 2
MaxCalls == 3

\* ------------------------------------------------------------- sequences

RECURSIVE Flatten(_)
Flatten(ss) == IF ss = <<>> THEN <<>> ELSE Head(ss) \o Flatten(Tail(ss))

Last(s) == s[Len(s)]

\* ------------------------------------------------------------------ paths

Seg(stem, ext) == [stem |-> stem, ext |-> ext]
Dir(name) == Seg(name, "")
\* The empty segment in front of an absolute path's leading "/".
RootSeg == Seg("", "")

SegStr(seg) == seg.stem \o seg.ext

RECURSIVE JoinPath(_)
JoinPath(p) ==
  IF p = <<>> THEN ""
  ELSE IF Len(p) = 1 THEN SegStr(p[1])
  ELSE SegStr(p[1]) \o "/" \o JoinPath(Tail(p))

extname(p) == Last(p).ext
basename(p) == SegStr(Last(p))

\* glob's `absolute: true` under cwd = path.resolve(directoryPath).
Absolute(root, rel) == <<RootSeg>> \o root \o rel

\* ------------------------------------------------------------- minimatch

Globstar == [kind |-> "globstar"]
Star == [kind |-> "star"]
StarExt(ext) == [kind |-> "starext", ext |-> ext]
Lit(seg) == [kind |-> "lit", seg |-> seg]

\* One pattern part against one path part (dot: true).
SegMatch(p, f) ==
  CASE p.kind = "lit" -> SegStr(f) = SegStr(p.seg)
    [] p.kind = "star" -> SegStr(f) # "" /\ SegStr(f) # "." /\ SegStr(f) # ".."
    [] p.kind = "starext" -> f.ext = p.ext
    [] OTHER -> FALSE

IsDots(f) == SegStr(f) = "." \/ SegStr(f) = ".."

RECURSIVE matchOne(_, _)
matchOne(file, pattern) ==
  IF file = <<>> \/ pattern = <<>>
  THEN IF file = <<>> /\ pattern = <<>> THEN TRUE
       ELSE IF file = <<>> THEN FALSE
       ELSE Len(file) = 1 /\ SegStr(file[1]) = ""
  ELSE IF Head(pattern).kind = "globstar"
  THEN IF Len(pattern) = 1
       THEN \A i \in 1..Len(file) : ~IsDots(file[i])
       ELSE \E fr \in 1..Len(file) :
              /\ \A k \in 1..(fr - 1) : ~IsDots(file[k])
              /\ matchOne(SubSeq(file, fr, Len(file)), Tail(pattern))
  ELSE /\ SegMatch(Head(pattern), Head(file))
       /\ matchOne(Tail(file), Tail(pattern))

\* minimatch(file, pattern, {matchBase: true, dot: true})
minimatch(file, pattern) ==
  IF Len(pattern) = 1 THEN matchOne(<<Last(file)>>, pattern)
  ELSE matchOne(file, pattern)

isRuleIgnored(ruleId, filePath, cfg) ==
  /\ ruleId \in DOMAIN cfg.ignoreRules
  /\ \E i \in 1..Len(cfg.ignoreRules[ruleId]) :
       minimatch(filePath, cfg.ignoreRules[ruleId][i])

\* A list element of ignoreRules that is not a string (the loader merges
\* ignoreRules without validating it): minimatch throws a TypeError on it.
InvalidPattern == <<[kind |-> "invalid"]>>

\* isRuleIgnored throws: the loop reaches a non-string pattern before any
\* pattern has matched.
isRuleIgnoredThrows(ruleId, filePath, cfg) ==
  /\ ruleId \in DOMAIN cfg.ignoreRules
  /\ \E i \in 1..Len(cfg.ignoreRules[ruleId]) :
       /\ cfg.ignoreRules[ruleId][i][1].kind = "invalid"
       /\ \A k \in 1..(i - 1) : ~minimatch(filePath, cfg.ignoreRules[ruleId][k])

\* ------------------------------------------------------------- languages

\* VibechckFileScanner.isSourceFile: the extension whitelist.
sourceExtensions ==
  {".js", ".jsx", ".mjs", ".cjs", ".ts", ".tsx", ".py", ".rs", ".go", ".java",
   ".kt", ".cs", ".cpp", ".c", ".h", ".php", ".rb", ".swift", ".scala", ".vue",
   ".svelte"}

isSourceFile(p) == extname(p) \in sourceExtensions

\* VibechckFileScanner.detectLanguage
detectLanguage(p) ==
  CASE extname(p) \in {".js", ".jsx", ".mjs", ".cjs"} -> "javascript"
    [] extname(p) \in {".ts", ".tsx"} -> "typescript"
    [] extname(p) = ".py" -> "python"
    [] extname(p) = ".rs" -> "rust"
    [] extname(p) = ".go" -> "go"
    [] extname(p) = ".vue" -> "vue"
    [] extname(p) = ".svelte" -> "svelte"
    [] basename(p) = "package.json" -> "javascript"
    [] basename(p) \in {"requirements.txt", "pyproject.toml", "setup.py"} -> "python"
    [] basename(p) \in {"go.mod", "go.sum"} -> "go"
    [] OTHER -> "unknown"

\* ParserFactory.getLanguageForFile
getLanguageForFile(p) ==
  CASE extname(p) \in {".js", ".jsx", ".mjs"} -> "javascript"
    [] extname(p) \in {".ts", ".tsx"} -> "typescript"
    [] extname(p) = ".py" -> "python"
    [] OTHER -> "unknown"

\* ---------------------------------------------------------------- alerts

CRITICAL == "CRITICAL"
HIGH == "HIGH"
MEDIUM == "MEDIUM"
LOW == "LOW"

\* An alert without a line (line: undefined) carries NoLine; source lines
\* are 1-based.
NoLine == 0

Alert(id, severity, message, file, line, module, rule) ==
  [id |-> id, severity |-> severity, message |-> message, file |-> file,
   line |-> line, module |-> module, rule |-> rule]

\* `${x}` of a line number or of undefined
Str(line) == IF line = NoLine THEN "undefined" ELSE ToString(line)

\* ------------------------------------------------------ regular expressions

\* What a regular expression finds in a line: the line's spans for it.
Matches(line, pat) == IF pat \in DOMAIN line.m THEN line.m[pat] ELSE <<>>

\* RegExp.prototype.test of a /g expression: the search starts at lastIndex,
\* which a hit moves to the end of the match and a miss resets to 0.
TestG(spans, lastIndex) ==
  LET from == {k \in 1..Len(spans) : spans[k].s >= lastIndex}
  IN IF from = {} THEN [hit |-> FALSE, lastIndex |-> 0]
     ELSE LET k == CHOOSE k \in from : \A j \in from : k <= j
          IN [hit |-> TRUE, lastIndex |-> spans[k].e]

\* The hits of one /g expression tested once on every line in turn, the
\* expression object being created before the loop over the lines.
RECURSIVE HitsG(_, _, _)
HitsG(lines, pat, lastIndex) ==
  IF lines = <<>> THEN <<>>
  ELSE LET t == TestG(Matches(Head(lines), pat), lastIndex)
       IN <<t.hit>> \o HitsG(Tail(lines), pat, t.lastIndex)

\* test of an expression without the g flag
Test(line, pat) == Matches(line, pat) # <<>>

\* ------------------------------------------------------- SecuritySentinel

\* detectHardcodedSecrets.secretPatterns, in order; threshold 0 is "no
\* entropyThreshold".  Entropies are in tenths of a bit per character.
secretPatterns(cfg) ==
  << [pat |-> "apikey", type |-> "API Key", threshold |-> 0],
     [pat |-> "jwt", type |-> "JWT Token", threshold |-> 0],
     [pat |-> "aws", type |-> "AWS Credentials", threshold |-> 0],
     [pat |-> "dburl", type |-> "Database URL", threshold |-> 0],
     [pat |-> "quoted32", type |-> "High-entropy string",
      threshold |-> cfg.security.secretEntropyThreshold] >>

SecretAlert(sp, span, file, i, now) ==
  IF sp.threshold # 0 /\ span.entropy < sp.threshold THEN <<>>
  ELSE << Alert("hardcoded - secret - " \o ToString(now) \o " -" \o ToString(i) \o " ",
                CRITICAL, "Hardcoded Secret: " \o sp.type \o " detected",
                JoinPath(file), i + 1, "SecuritySentinel", "hardcoded-secret") >>

detectHardcodedSecrets(lines, file, cfg, now) ==
  Flatten([i \in 1..Len(lines) |->
    Flatten([q \in 1..Len(secretPatterns(cfg)) |->
      LET sp == secretPatterns(cfg)[q]
          spans == Matches(lines[i], sp.pat)
      IN Flatten([k \in 1..Len(spans) |-> SecretAlert(sp, spans[k], file, i - 1, now)])])])

\* One alert per (line, pattern) hit of a list of /g expressions.
LinePatternAlerts(lines, pats, mk(_, _)) ==
  LET hits == [q \in 1..Len(pats) |-> HitsG(lines, pats[q], 0)]
  IN Flatten([i \in 1..Len(lines) |->
       Flatten([q \in 1..Len(pats) |->
         IF hits[q][i] THEN <<mk(i - 1, q)>> ELSE <<>>])])

picklePatterns == <<"import pickle", "pickle.loads(", "pickle.load(">>
unsafePatterns == <<"eval(", "Function(", "new Function(">>

detectInsecureDeserializationJS(lines, file, now) ==
  LET mk(i, q) ==
        Alert("insecure - deserialization - " \o ToString(now) \o " -" \o ToString(i) \o " ",
              HIGH,
              "Insecure Deserialization: eval/Function usage detected - potential RCE risk",
              JoinPath(file), i + 1, "SecuritySentinel", "insecure-deserialization")
  IN LinePatternAlerts(lines, unsafePatterns, mk)

detectInsecureDeserialization(lines, file, cfg, now) ==
  IF isRuleIgnored("insecure-deserialization", file, cfg) THEN <<>>
  ELSE LET mk(i, q) ==
             Alert("insecure - deserialization - " \o ToString(now) \o " -" \o ToString(i) \o " ",
                   CRITICAL,
                   "Insecure Deserialization: pickle usage detected - RCE vulnerability risk",
                   JoinPath(file), i + 1, "SecuritySentinel", "insecure-deserialization")
       IN (IF extname(file) = ".py" THEN LinePatternAlerts(lines, picklePatterns, mk) ELSE <<>>)
          \o (IF detectLanguage(file) \in {"javascript", "typescript"}
              THEN detectInsecureDeserializationJS(lines, file, now) ELSE <<>>)

detectInsecureJWT(lines, file, cfg, now) ==
  IF isRuleIgnored("insecure-jwt", file, cfg) THEN <<>>
  ELSE LET mk(i, q) ==
             IF q = 1
             THEN Alert("insecure-jwt-decode-" \o ToString(now) \o "-" \o ToString(i), HIGH,
                        "Insecure JWT Usage: jwt.decode() does not verify signatures. Use jwt.verify() instead.",
                        JoinPath(file), i + 1, "SecuritySentinel", "insecure-jwt")
             ELSE Alert("insecure-jwt-none-" \o ToString(now) \o "-" \o ToString(i), CRITICAL,
                        "Critical Vulnerability: JWT \"none\" algorithm detected. This allows token forgery.",
                        JoinPath(file), i + 1, "SecuritySentinel", "insecure-jwt-none")
       IN LinePatternAlerts(lines, <<"jwt.decode(", "alg: none">>, mk)

\* extractFunctionContent: the lines from startLineIndex up to the line at
\* whose end an opening brace has been seen and the braces balance (or up to
\* the last line); lines are numbered from 1 here.
RECURSIVE functionEnd(_, _, _, _)
functionEnd(lines, i, braceCount, foundOpeningBrace) ==
  LET count == braceCount + Len(Matches(lines[i], "{")) - Len(Matches(lines[i], "}"))
      found == foundOpeningBrace \/ Matches(lines[i], "{") # <<>>
  IN IF (found /\ count = 0) \/ i = Len(lines) THEN i
     ELSE functionEnd(lines, i + 1, count, found)

extractFunctionContent(lines, startLineIndex) ==
  SubSeq(lines, startLineIndex, functionEnd(lines, startLineIndex, 0, FALSE))

\* hasInputValidation: one of the validation patterns occurs in the text.
hasInputValidation(functionContent) ==
  \E i \in 1..Len(functionContent) : Test(functionContent[i], "validation")

React2ShellAlert(functionName, file, i, now) ==
  Alert("react2shell - " \o functionName \o " -" \o ToString(now) \o " ", CRITICAL,
        "Potential React2Shell: Unvalidated Server Action Input detected",
        JoinPath(file), i, "SecuritySentinel", "react2shell")

\* The loop of detectReact2ShellJS from line i on.  A line's "use server" says
\* that its trimmed text is the directive, "export async function" holds the
\* declaration it matches with the function's name, and "quote" says that its
\* trimmed text starts with a quote.
RECURSIVE react2ShellFrom(_, _, _, _, _)
react2ShellFrom(lines, i, inServerAction, file, now) ==
  IF i > Len(lines) THEN <<>>
  ELSE IF Test(lines[i], "use server") THEN react2ShellFrom(lines, i + 1, TRUE, file, now)
  ELSE (IF /\ inServerAction
           /\ Test(lines[i], "export async function")
           /\ ~hasInputValidation(extractFunctionContent(lines, i))
        THEN << React2ShellAlert(Matches(lines[i], "export async function")[1].text,
                                 file, i, now) >>
        ELSE <<>>)
       \o react2ShellFrom(lines, i + 1, inServerAction /\ ~Test(lines[i], "quote"), file, now)

detectReact2ShellJS(lines, file, cfg, now) ==
  IF isRuleIgnored("react2shell", file, cfg) THEN <<>>
  ELSE react2ShellFrom(lines, 1, FALSE, file, now)

detectReact2Shell(lines, file, cfg, now) ==
  IF detectLanguage(file) \in {"javascript", "typescript"}
  THEN detectReact2ShellJS(lines, file, cfg, now) ELSE <<>>

\* hasEnvCheckNearby: an environment check in the lines from `lookback` lines
\* before the current line up to it; lines are numbered from 1 here.
hasEnvCheckNearby(lines, currentLine, lookback) ==
  \E k \in (IF currentLine - lookback < 1 THEN 1 ELSE currentLine - lookback)..currentLine :
    Test(lines[k], "env check")

\* detectMissingEnvCheck; a line's "destructive" holds the operation of the
\* first destructive pattern that matches it.
detectMissingEnvCheck(lines, file, cfg, now) ==
  IF isRuleIgnored("missing-env-check", file, cfg) THEN <<>>
  ELSE Flatten([i \in 1..Len(lines) |->
         IF Test(lines[i], "destructive") /\ ~hasEnvCheckNearby(lines, i, 10)
         THEN << Alert("missing-env-check-" \o ToString(i - 1), MEDIUM,
                       "Missing Environment Check: Destructive operation ("
                         \o Matches(lines[i], "destructive")[1].text
                         \o ") without environment guard",
                       JoinPath(file), i, "SecuritySentinel", "missing-env-check") >>
         ELSE <<>>])

\* SecuritySentinel.analyzeFile
SecurityAnalyzeFile(f, cfg, now) ==
  (IF cfg.security.detectHardcodedSecrets
   THEN detectHardcodedSecrets(f.lines, f.path, cfg, now) ELSE <<>>)
  \o (IF cfg.security.detectInsecureDeserialization
      THEN detectInsecureDeserialization(f.lines, f.path, cfg, now) ELSE <<>>)
  \o (IF cfg.security.detectReact2Shell
      THEN detectReact2Shell(f.lines, f.path, cfg, now) ELSE <<>>)
  \o (IF cfg.security.detectInsecureJWT
      THEN detectInsecureJWT(f.lines, f.path, cfg, now) ELSE <<>>)
  \o (IF cfg.security.detectMissingEnvCheck
      THEN detectMissingEnvCheck(f.lines, f.path, cfg, now) ELSE <<>>)

\* SecuritySentinel.analyze (supplyChain.checkScorecard is off)
SecurityAnalyze(fs, cfg, now) ==
  LET sourceFiles == SelectSeq(fs, LAMBDA f : isSourceFile(f.path))
  IN Flatten([k \in 1..Len(sourceFiles) |->
       IF isRuleIgnored("security", sourceFiles[k].path, cfg) \/ sourceFiles[k].failed
       THEN <<>>
       ELSE SecurityAnalyzeFile(sourceFiles[k], cfg, now)])

\* --------------------------------------------------------- LazinessLinter

aiPreamblePatterns ==
  <<"As an AI language model", "Here is the updated code", "I've updated the code",
    "Below is the implementation", "Here's how you can">>

detectAIPreambles(lines, file, now) ==
  Flatten([i \in 1..Len(lines) |->
    IF \E q \in 1..Len(aiPreamblePatterns) : Test(lines[i], aiPreamblePatterns[q])
    THEN << Alert("ai - preamble - " \o ToString(now) \o " -" \o ToString(i - 1) \o " ",
                  MEDIUM, "AI Preamble Detected: Blind copy-paste of AI response detected",
                  JoinPath(file), i, "LazinessLinter", "ai-preamble") >>
    ELSE <<>>])

\* LazinessLinter.runRegexChecks
runRegexChecks(lines, file, cfg, now) ==
  IF cfg.laziness.detectAIPreambles /\ ~isRuleIgnored("ai-preamble", file, cfg)
  THEN detectAIPreambles(lines, file, now) ELSE <<>>

\* LazinessLinter.analyzeFile (the AST checks are switched off)
LazinessAnalyzeFile(f, cfg, now) ==
  IF getLanguageForFile(f.path) = "unknown" THEN <<>>
  ELSE runRegexChecks(f.lines, f.path, cfg, now)

\* LazinessLinter.analyze
LazinessAnalyze(fs, cfg, now) ==
  LET sourceFiles == SelectSeq(fs, LAMBDA f : isSourceFile(f.path))
  IN Flatten([k \in 1..Len(sourceFiles) |->
       IF isRuleIgnored("laziness", sourceFiles[k].path, cfg) \/ sourceFiles[k].failed
       THEN <<>>
       ELSE LazinessAnalyzeFile(sourceFiles[k], cfg, now)])

\* ---------------------------------------------------- ArchitectureScanner

safeNumbers == {"0", "1", "2", "10", "100", "-1"}

\* detectMagicNumbers; a line's `skip` says that its trimmed text starts as a
\* comment, an import or a declaration.
detectMagicNumbers(lines, file, cfg, now) ==
  IF isRuleIgnored("magic-number", file, cfg) THEN <<>>
  ELSE Flatten([i \in 1..Len(lines) |->
         IF lines[i].skip THEN <<>>
         ELSE LET spans == Matches(lines[i], "number")
              IN Flatten([k \in 1..Len(spans) |->
                   IF spans[k].text \in safeNumbers THEN <<>>
                   ELSE << Alert("magic-number-" \o ToString(now) \o "-" \o ToString(i - 1)
                                   \o "-" \o ToString(spans[k].s),
                                 LOW,
                                 "Magic Number detected: " \o spans[k].text
                                   \o ". Unexplained numeric literals reduce readability.",
                                 JoinPath(file), i, "ArchitectureScanner", "magic-number") >>])])

MixedNamingAlert(file, i, now) ==
  Alert("mixed-naming-" \o ToString(now) \o "-" \o ToString(i - 1), MEDIUM,
        "Inconsistent Naming: Mixed naming conventions indicate mixed-source AI generation",
        JoinPath(file), i, "ArchitectureScanner", "mixed-naming")

\* The loop of detectMixedNamingJS from line i on.  A line's "type alias" and
\* "interface" say that it starts as such a declaration, "close brace" that
\* it starts with a closing brace, and "camelCase" and "snake_case" hold its
\* identifiers of either form.
RECURSIVE mixedNamingFrom(_, _, _, _, _)
mixedNamingFrom(lines, i, insideTypeOrInterface, file, now) ==
  IF i > Len(lines) THEN <<>>
  ELSE IF Test(lines[i], "type alias")
  THEN mixedNamingFrom(lines, i + 1, insideTypeOrInterface, file, now)
  ELSE LET inside == /\ insideTypeOrInterface \/ Test(lines[i], "interface")
                     /\ ~Test(lines[i], "close brace")
       IN (IF ~inside /\ Test(lines[i], "camelCase") /\ Test(lines[i], "snake_case")
           THEN <<MixedNamingAlert(file, i, now)>> ELSE <<>>)
          \o mixedNamingFrom(lines, i + 1, inside, file, now)

detectMixedNamingJS(lines, file, cfg, now) ==
  IF isRuleIgnored("mixed-naming", file, cfg) THEN <<>>
  ELSE mixedNamingFrom(lines, 1, FALSE, file, now)

\* ArchitectureScanner.analyzeFile (no function is above the god-function
\* thresholds)
ArchitectureAnalyzeFile(f, cfg, now) ==
  (IF cfg.architecture.detectMixedNaming
      /\ detectLanguage(f.path) \in {"javascript", "typescript"}
   THEN detectMixedNamingJS(f.lines, f.path, cfg, now) ELSE <<>>)
  \o (IF cfg.architecture.detectMagicNumbers
      THEN detectMagicNumbers(f.lines, f.path, cfg, now) ELSE <<>>)

\* The import graph.  A file lists its import statements in source order,
\* each with the module specifier as written (a path such as ./b, or a dotted
\* python module such as .models) and the names its clause imports (for
\* `B as C` the name B), and the names its export declarations declare.  A
\* node is keyed by the string of its file path and its edges are the
\* specifiers as written.
Import(spec, symbols) == [path |-> spec, symbols |-> symbols]

\* String.prototype.startsWith
startsWith(str, prefix) ==
  /\ Len(str) >= Len(prefix)
  /\ SubSeq(str, 1, Len(prefix)) = prefix

\* extractImports: the statements that add a path and its symbols.
extractImports(f) ==
  IF detectLanguage(f.path) \in {"javascript", "typescript", "vue", "svelte"}
  THEN SelectSeq(f.imports, LAMBDA i : \/ startsWith(JoinPath(i.path), ".")
                                       \/ startsWith(JoinPath(i.path), "@/"))
  ELSE IF detectLanguage(f.path) = "python"
  THEN SelectSeq(f.imports, LAMBDA i : /\ ~startsWith(JoinPath(i.path), ".")
                                       /\ startsWith(JoinPath(i.path), "."))
  ELSE <<>>

\* extractExports
extractExports(f) ==
  IF detectLanguage(f.path) \in {"javascript", "typescript", "vue", "svelte"}
  THEN f.exports ELSE <<>>

ImportNode(f) ==
  [filePath |-> f.path,
   imports |-> [i \in 1..Len(extractImports(f)) |-> JoinPath(extractImports(f)[i].path)],
   importedSymbols |-> extractImports(f),
   exports |-> extractExports(f)]

\* The graph the scanner is constructed with, and buildImportGraph starts from.
NoGraph == [nodes |-> <<>>, edges |-> <<>>]

\* new Set(paths), in insertion order
SetOf(s) == SelectSeq([i \in 1..Len(s) |-> [x |-> s[i], first |-> \A k \in 1..(i - 1) : s[k] # s[i]]],
                      LAMBDA e : e.first)

\* buildImportGraph: a file whose read throws gets no node and no edges; and
\* a variant that gives every file its node.
buildImportGraphOfAll(fs) ==
  [nodes |-> [k \in 1..Len(fs) |-> ImportNode(fs[k])],
   edges |-> [k \in 1..Len(fs) |->
                [i \in 1..Len(SetOf(ImportNode(fs[k]).imports)) |->
                   SetOf(ImportNode(fs[k]).imports)[i].x]]]
buildImportGraph(fs) ==
  LET read == SelectSeq(fs, LAMBDA f : ~f.failed)
  IN [nodes |-> [k \in 1..Len(read) |-> ImportNode(read[k])],
      edges |-> [k \in 1..Len(read) |->
                   [i \in 1..Len(SetOf(ImportNode(read[k]).imports)) |->
                      SetOf(ImportNode(read[k]).imports)[i].x]]]

NodeKeys(g) == [k \in 1..Len(g.nodes) |-> JoinPath(g.nodes[k].filePath)]

\* this.importGraph.edges.get(node) || new Set()
edgesOf(g, node) ==
  IF \E k \in 1..Len(g.nodes) : NodeKeys(g)[k] = node
  THEN g.edges[CHOOSE k \in 1..Len(g.nodes) : NodeKeys(g)[k] = node]
  ELSE <<>>

\* findCycles: the depth-first search; the result carries the cycles found
\* and the visited set as the call leaves it.
RECURSIVE findCycles(_, _, _, _, _)
RECURSIVE visitEdges(_, _, _, _, _)
joinCycles(acc, r) == [cycles |-> acc.cycles \o r.cycles, visited |-> r.visited]

cycleFrom(path, neighbor) ==
  LET cycleStart == CHOOSE i \in 1..Len(path) : path[i] = neighbor
  IN Append(SubSeq(path, cycleStart, Len(path)), neighbor)

visitEdges(g, neighbors, acc, recursionStack, path) ==
  IF neighbors = <<>> THEN acc
  ELSE IF Head(neighbors) \notin acc.visited
  THEN visitEdges(g, Tail(neighbors),
                  joinCycles(acc, findCycles(g, Head(neighbors), acc.visited,
                                             recursionStack, path)),
                  recursionStack, path)
  ELSE IF Head(neighbors) \in recursionStack
  THEN visitEdges(g, Tail(neighbors),
                  [cycles |-> Append(acc.cycles, cycleFrom(path, Head(neighbors))),
                   visited |-> acc.visited],
                  recursionStack, path)
  ELSE visitEdges(g, Tail(neighbors), acc, recursionStack, path)

findCycles(g, node, visited, recursionStack, path) ==
  visitEdges(g, edgesOf(g, node), [cycles |-> <<>>, visited |-> visited \cup {node}],
             recursionStack \cup {node}, Append(path, node))

RECURSIVE JoinWith(_, _)
JoinWith(s, sep) ==
  IF s = <<>> THEN ""
  ELSE IF Len(s) = 1 THEN s[1]
  ELSE s[1] \o sep \o JoinWith(Tail(s), sep)

CycleAlert(cycle, now) ==
  Alert("circular-dependency-" \o ToString(now) \o "-" \o ToString(Len(cycle)),
        HIGH,
        "Circular Dependency: " \o JoinWith(cycle, " <-> ")
          \o " - architectural flaw common in AI code",
        cycle[1], NoLine, "ArchitectureScanner", "circular-dependency")

\* detectCircularDependencies: a search from every node not yet visited, in
\* the order of the nodes map.
RECURSIVE detectCircularDependenciesFrom(_, _, _, _)
cyclesThen(r, g, k, now) ==
  [i \in 1..Len(r.cycles) |-> CycleAlert(r.cycles[i], now)]
    \o detectCircularDependenciesFrom(g, k + 1, r.visited, now)

detectCircularDependenciesFrom(g, k, visited, now) ==
  IF k > Len(g.nodes) THEN <<>>
  ELSE IF NodeKeys(g)[k] \in visited
  THEN detectCircularDependenciesFrom(g, k + 1, visited, now)
  ELSE cyclesThen(findCycles(g, NodeKeys(g)[k], visited, {}, <<>>), g, k, now)

detectCircularDependencies(g, now) == detectCircularDependenciesFrom(g, 1, {}, now)

\* path.resolve(path.dirname(sourceFilePath), importPath)
RECURSIVE Normalize(_, _)
Normalize(done, rest) ==
  IF rest = <<>> THEN done
  ELSE IF SegStr(Head(rest)) = "." THEN Normalize(done, Tail(rest))
  ELSE IF SegStr(Head(rest)) = ".."
  THEN Normalize(IF Len(done) > 1 THEN SubSeq(done, 1, Len(done) - 1) ELSE done, Tail(rest))
  ELSE Normalize(Append(done, Head(rest)), Tail(rest))

resolveExtensions == <<".ts", ".tsx", ".js", ".jsx", ".d.ts", "">>

\* The candidates resolveImportPath tries for one extension, in order.
resolveCandidates(abs, ext) ==
  (IF Last(abs).ext = ".js" /\ ext \in {".ts", ".tsx"}
   THEN << JoinPath(SubSeq(abs, 1, Len(abs) - 1) \o <<Dir(Last(abs).stem)>>) \o ext >>
   ELSE <<>>)
  \o << JoinPath(abs) \o ext, JoinPath(abs) \o "/index" \o ext >>

\* resolveImportPath for a relative specifier: the first candidate that is a
\* node of the graph, or "" for null.
resolveImportPath(g, sourceFilePath, importPath) ==
  LET abs == Normalize(SubSeq(sourceFilePath, 1, Len(sourceFilePath) - 1), importPath)
      candidates == Flatten([e \in 1..Len(resolveExtensions) |->
                               resolveCandidates(abs, resolveExtensions[e])])
      hits == SelectSeq(candidates, LAMBDA c : \E k \in 1..Len(g.nodes) : NodeKeys(g)[k] = c)
  IN IF hits = <<>> THEN "" ELSE hits[1]

\* collectUsages: the symbols imported from each node, by node key.
collectUsages(g) ==
  [k \in 1..Len(g.nodes) |->
     UNION { UNION { g.nodes[n].importedSymbols[i].symbols :
                       i \in { j \in 1..Len(g.nodes[n].importedSymbols) :
                                 resolveImportPath(g, g.nodes[n].filePath,
                                                   g.nodes[n].importedSymbols[j].path)
                                   = NodeKeys(g)[k] } } :
             n \in 1..Len(g.nodes) }]

entryPoints == {"index.ts", "index.js", "main.ts", "App.tsx"}

\* String.prototype.endsWith
endsWith(str, suffix) ==
  /\ Len(str) >= Len(suffix)
  /\ SubSeq(str, Len(str) - Len(suffix) + 1, Len(str)) = suffix

UnusedExportAlert(filePath, exportName) ==
  Alert("unused-export-" \o filePath \o "-" \o exportName,
        LOW,
        "Unused Export: " \o exportName \o " is exported but never imported",
        filePath, NoLine, "ArchitectureScanner", "unused-export")

detectUnusedExports(g) ==
  Flatten([k \in 1..Len(g.nodes) |->
    Flatten([e \in 1..Len(g.nodes[k].exports) |->
      IF \/ g.nodes[k].exports[e] \in collectUsages(g)[k]
         \/ "*" \in collectUsages(g)[k]
         \/ \E s \in entryPoints : endsWith(NodeKeys(g)[k], s)
      THEN <<>>
      ELSE << UnusedExportAlert(NodeKeys(g)[k], g.nodes[k].exports[e]) >>])])

\* The path whose string is a node key.
PathOfKey(g, key) == g.nodes[CHOOSE k \in 1..Len(g.nodes) : NodeKeys(g)[k] = key].filePath

\* The part of analyze that follows the loop over the files.
crossFileAlerts(g, cfg, now) ==
  (IF cfg.architecture.detectCircularDependencies
   THEN detectCircularDependencies(g, now) ELSE <<>>)
  \o (IF cfg.architecture.detectUnusedExports
      THEN SelectSeq(detectUnusedExports(g),
                     LAMBDA a : ~isRuleIgnored("unused-export", PathOfKey(g, a.file), cfg))
      ELSE <<>>)

\* ArchitectureScanner.analyze
ArchitectureAnalyze(fs, cfg, now) ==
  LET sourceFiles == SelectSeq(fs, LAMBDA f : isSourceFile(f.path))
  IN Flatten([k \in 1..Len(sourceFiles) |->
       IF isRuleIgnored("architecture", sourceFiles[k].path, cfg) \/ sourceFiles[k].failed
       THEN <<>>
       ELSE ArchitectureAnalyzeFile(sourceFiles[k], cfg, now)])
     \o crossFileAlerts(buildImportGraph(sourceFiles), cfg, now)

\* ------------------------------------------------------------ CostSentinel

\* CostSentinel.analyze: no file of the model calls an expensive API, so no
\* loop and no function yields an alert.
CostAnalyze(fs, cfg, now) ==
  LET sourceFiles == SelectSeq(fs, LAMBDA f : isSourceFile(f.path))
  IN Flatten([k \in 1..Len(sourceFiles) |-> <<>>])

\* --------------------------------------------------- VibechckRegistryClient

\* 5 * 60 * 1000 ms, in minutes
cacheTimeout == 5

\* A package name is its sequence of characters.
RECURSIVE NameStr(_)
NameStr(n) == IF n = <<>> THEN "" ELSE Head(n) \o NameStr(Tail(n))

NullInfo == [null |-> TRUE]
PackageInfo(name, createdAt) == [name |-> name, createdAt |-> createdAt]

\* What the registry's endpoint does with one request.
Ok(created) == [status |-> "200", hasCreated |-> TRUE, created |-> created]
OkNoDate == [status |-> "200", hasCreated |-> FALSE, created |-> 0]
NotFound == [status |-> "404", hasCreated |-> FALSE, created |-> 0]
ServerError == [status |-> "500", hasCreated |-> FALSE, created |-> 0]
Timeout == [status |-> "timeout", hasCreated |-> FALSE, created |-> 0]

supportedRegistries == {"npm", "pypi", "crates", "go"}

\* getNpmPackageInfo, getPypiPackageInfo, getCratesPackageInfo and
\* getGoPackageInfo: the info, null on a 404, a thrown Error otherwise.
fetchPackageInfo(packageName, registry, answer, now) ==
  CASE answer.status = "200" ->
         [threw |-> FALSE,
          ret |-> PackageInfo(NameStr(packageName),
                    IF registry = "go" THEN now
                    ELSE IF answer.hasCreated \/ registry = "crates" THEN answer.created
                    ELSE now)]
    [] answer.status = "404" -> [threw |-> FALSE, ret |-> NullInfo]
    [] OTHER -> [threw |-> TRUE, ret |-> NullInfo]

cacheKeyOf(packageName, registry) == registry \o ":" \o NameStr(packageName)

\* The cached entry is served: `cached && Date.now() - cached.createdAt.getTime()
\* < this.cacheTimeout`.
cacheHit(c, cacheKey, now) ==
  /\ cacheKey \in DOMAIN c
  /\ c[cacheKey] # NullInfo
  /\ now - c[cacheKey].createdAt < cacheTimeout

\* if (packageInfo) { this.cache.set(cacheKey, packageInfo) }
cacheSet(c, cacheKey, r) ==
  IF ~r.threw /\ r.ret # NullInfo
  THEN [k \in DOMAIN c \cup {cacheKey} |-> IF k = cacheKey THEN r.ret ELSE c[k]]
  ELSE c

\* getPackageInfo after the registry's answer r.
fetched(c, cacheKey, r) ==
  [threw |-> r.threw, ret |-> r.ret, cache |-> cacheSet(c, cacheKey, r), network |-> TRUE]

\* getPackageInfo: the value returned or that an error was thrown, the cache
\* afterwards, and whether a request went to the network.
getPackageInfo(c, packageName, registry, answer, now) ==
  IF cacheHit(c, cacheKeyOf(packageName, registry), now)
  THEN [threw |-> FALSE, ret |-> c[cacheKeyOf(packageName, registry)], cache |-> c,
        network |-> FALSE]
  ELSE IF registry \notin supportedRegistries
  THEN [threw |-> TRUE, ret |-> NullInfo, cache |-> c, network |-> FALSE]
  ELSE fetched(c, cacheKeyOf(packageName, registry),
               fetchPackageInfo(packageName, registry, answer, now))

\* try { return (await getPackageInfo(...)) !== null } catch { return false }
existsFrom(r) ==
  [threw |-> FALSE, ret |-> IF r.threw THEN FALSE ELSE r.ret # NullInfo,
   cache |-> r.cache, network |-> r.network]

\* checkPackageExists: the boolean returned (it never throws).
checkPackageExists(c, packageName, registry, answer, now) ==
  existsFrom(getPackageInfo(c, packageName, registry, answer, now))

\* ---------------------------------------------------- HallucinationSentinel

MINUTES_PER_HOUR == 60
HOURS_PER_DAY == 24
MinutesPerDay == MINUTES_PER_HOUR * HOURS_PER_DAY

\* loadTopPackages
topPackages ==
  << <<"r","e","a","c","t">>,
     <<"v","u","e">>,
     <<"a","n","g","u","l","a","r">>,
     <<"e","x","p","r","e","s","s">>,
     <<"l","o","d","a","s","h">>,
     <<"m","o","m","e","n","t">>,
     <<"a","x","i","o","s">>,
     <<"w","e","b","p","a","c","k">>,
     <<"b","a","b","e","l">>,
     <<"t","y","p","e","s","c","r","i","p","t">>,
     <<"e","s","l","i","n","t">>,
     <<"p","r","e","t","t","i","e","r">>,
     <<"j","e","s","t">>,
     <<"w","e","b","p","a","c","k">>,
     <<"r","o","l","l","u","p">>,
     <<"v","i","t","e">>,
     <<"n","e","x","t">>,
     <<"n","u","x","t">>,
     <<"r","e","q","u","e","s","t","s">>,
     <<"n","u","m","p","y">>,
     <<"p","a","n","d","a","s">>,
     <<"s","c","i","p","y">>,
     <<"m","a","t","p","l","o","t","l","i","b">>,
     <<"f","l","a","s","k">>,
     <<"d","j","a","n","g","o">>,
     <<"f","a","s","t","a","p","i">>,
     <<"s","e","r","d","e">>,
     <<"t","o","k","i","o">>,
     <<"r","a","y","o","n">>,
     <<"c","l","a","p">>,
     <<"l","o","g">>,
     <<"a","n","y","h","o","w">>,
     <<"t","h","i","s","e","r","r","o","r">>,
     <<"s","e","r","d","e","_","j","s","o","n">>,
     <<"g","i","n">>,
     <<"e","c","h","o">>,
     <<"c","o","b","r","a">>,
     <<"v","i","p","e","r">>,
     <<"g","o","r","m">>,
     <<"c","h","i">>,
     <<"f","i","b","e","r">>,
     <<"n","e","g","r","o","n","i">>,
     <<"m","a","r","t","i","n","i">> >>

Min2(a, b) == IF a < b THEN a ELSE b

\* One row of the edit-distance matrix from the row above it: `row` holds
\* the cells already computed, left to right.
RECURSIVE LevenshteinRow(_, _, _, _)
LevenshteinRow(prev, ch, b, row) ==
  LET j == Len(row)
  IN IF j > Len(b) THEN row
     ELSE LevenshteinRow(prev, ch, b,
            Append(row, Min2(Min2(prev[j + 1] + 1, row[j] + 1),
                             prev[j] + (IF ch = b[j] THEN 0 ELSE 1))))

RECURSIVE LevenshteinFrom(_, _, _, _)
LevenshteinFrom(prev, a, b, i) ==
  IF i > Len(a) THEN prev[Len(b) + 1]
  ELSE LevenshteinFrom(LevenshteinRow(prev, a[i], b, <<i>>), a, b, i + 1)

\* new Levenshtein(a, b).distance
Levenshtein(a, b) == LevenshteinFrom([j \in 1..(Len(b) + 1) |-> j - 1], a, b, 1)

\* The dependencies the scenarios declare.
Dep(name, registry) == [name |-> name, registry |-> registry]
DepReacts == Dep(<<"r", "e", "a", "c", "t", "s">>, "npm")
DepGhost == Dep(<<"g", "h", "o", "s", "t">>, "npm")
DepNext == Dep(<<"n", "e", "x", "t">>, "go")
DepReact == Dep(<<"r", "e", "a", "c", "t">>, "npm")

PackageNames == {DepReacts.name, DepGhost.name, DepNext.name, DepReact.name}

\* new Levenshtein(packageName, topPkg).distance for every scenario package
\* and every top package, tabulated once.
distances ==
  [packageName \in PackageNames |->
     [k \in 1..Len(topPackages) |-> Levenshtein(packageName, topPackages[k])]]


\* findTyposquatMatch: the first top package at the distance, or <<>>; and a
\* variant that takes the first top package within the distance.
findTyposquatWithin(packageName, maxDistance) ==
  LET at == {k \in 1..Len(topPackages) :
               LET distance == distances[packageName][k]
               IN distance <= maxDistance /\ distance > 0}
  IN IF at = {} THEN <<>>
     ELSE topPackages[CHOOSE k \in at : \A j \in at : k <= j]
findTyposquatMatch(packageName, maxDistance) ==
  LET at == {k \in 1..Len(topPackages) :
               LET distance == distances[packageName][k]
               IN distance = maxDistance /\ distance > 0}
  IN IF at = {} THEN <<>>
     ELSE topPackages[CHOOSE k \in at : \A j \in at : k <= j]

HallucinationDependencyFiles ==
  {"package.json", "requirements.txt", "pyproject.toml", "cargo.toml", "go.mod"}

\* Math.round of a non-negative quotient
RoundDiv(a, b) == (2 * a + b) \div (2 * b)

\* The phantom-package alert, and a variant of it whose message tells the time.
PhantomAlertDated(dep, now) ==
  Alert("hallucination-" \o NameStr(dep.name) \o "-" \o ToString(now), CRITICAL,
        "Hallucinated Package: " \o NameStr(dep.name) \o " did not exist in " \o dep.registry
          \o " at " \o ToString(now),
        dep.file, NoLine, "HallucinationSentinel", "phantom-package")
PhantomAlert(dep, now) ==
  Alert("hallucination-" \o NameStr(dep.name) \o "-" \o ToString(now), CRITICAL,
        "Hallucinated Package: " \o NameStr(dep.name) \o " does not exist in " \o dep.registry,
        dep.file, NoLine, "HallucinationSentinel", "phantom-package")

NewbornAlert(dep, createdAt, now) ==
  Alert("newborn-" \o NameStr(dep.name) \o "-" \o ToString(now), MEDIUM,
        "Newborn Package: " \o NameStr(dep.name) \o " is "
          \o ToString(RoundDiv(now - createdAt, MinutesPerDay)) \o " days old (newly registered)",
        dep.file, NoLine, "HallucinationSentinel", "newborn-package")

TyposquatAlert(dep, match, now) ==
  Alert("typosquat-" \o NameStr(dep.name) \o "-" \o ToString(now), MEDIUM,
        "Typosquatting Risk: " \o NameStr(dep.name) \o " is similar to " \o NameStr(match),
        dep.file, NoLine, "HallucinationSentinel", "typosquat-risk")

\* What the existence lookup of a dependency met.
outcomeOf(ex, dep, answer) ==
  [name |-> dep.name, network |-> ex.network,
   status |-> IF ex.network THEN answer.status ELSE "cached", exists |-> ex.ret]

\* config.hallucination.packageAgeThresholdDays || 30
thresholdOf(cfg) ==
  IF cfg.hallucination.packageAgeThresholdDays # 0
  THEN cfg.hallucination.packageAgeThresholdDays ELSE 30

\* The newborn check on the info getPackageInfo returned.
newbornAlerts(info, dep, cfg, now) ==
  IF /\ info # NullInfo
     /\ now - info.createdAt < thresholdOf(cfg) * MinutesPerDay
  THEN <<NewbornAlert(dep, info.createdAt, now)>> ELSE <<>>

\* The typosquat check on a match, <<>> being none.
typosquatAlerts(dep, match, now) ==
  IF match # <<>> THEN <<TyposquatAlert(dep, match, now)>> ELSE <<>>

\* The loop body after the newborn check's lookup r; the catch block drops
\* the dependency when the lookup threw.
afterNewborn(r, outcome, dep, cfg, now) ==
  [alerts |->
     IF r.threw THEN <<>>
     ELSE newbornAlerts(r.ret, dep, cfg, now)
          \o typosquatAlerts(dep, findTyposquatMatch(dep.name,
                                    cfg.hallucination.typosquatLevenshteinDistance), now),
   cache |-> r.cache, outcome |-> outcome]

\* The loop body after checkPackageExists returned ex; and a variant of it
\* that goes on to the typosquat check after the phantom alert.
afterExistsNoContinue(ex, dep, cfg, answer, now) ==
  [alerts |-> (IF ~ex.ret THEN <<PhantomAlert(dep, now)>> ELSE <<>>)
              \o typosquatAlerts(dep, findTyposquatMatch(dep.name,
                                        cfg.hallucination.typosquatLevenshteinDistance), now),
   cache |-> ex.cache, outcome |-> outcomeOf(ex, dep, answer)]
afterExists(ex, dep, cfg, answer, now) ==
  IF ~ex.ret
  THEN [alerts |-> <<PhantomAlert(dep, now)>>, cache |-> ex.cache,
        outcome |-> outcomeOf(ex, dep, answer)]
  ELSE afterNewborn(IF cfg.supplyChain.checkNewborn
                    THEN getPackageInfo(ex.cache, dep.name, dep.registry, answer, now)
                    ELSE [threw |-> FALSE, ret |-> NullInfo, cache |-> ex.cache,
                          network |-> FALSE],
                    outcomeOf(ex, dep, answer), dep, cfg, now)

\* The body of analyzeDependencies' loop for one dependency: its alerts, the
\* client's cache afterwards, and what the existence lookup met.
analyzeDependency(c, dep, cfg, answer, now) ==
  afterExists(checkPackageExists(c, dep.name, dep.registry, answer, now), dep, cfg, answer, now)

\* The alerts, the cache and the log of one step followed by the rest.
followedBy(one, rest) ==
  [alerts |-> one.alerts \o rest.alerts, cache |-> rest.cache, log |-> one.log \o rest.log]

logged(one) ==
  [alerts |-> one.alerts, cache |-> one.cache,
   log |-> <<[outcome |-> one.outcome, alerts |-> one.alerts]>>]

\* analyzeDependencies: the loop over the dependencies of one manifest.
RECURSIVE analyzeDependencies(_, _, _, _, _)
RECURSIVE analyzeDependenciesAfter(_, _, _, _, _)
analyzeDependenciesAfter(one, deps, cfg, answers, now) ==
  followedBy(one, analyzeDependencies(one.cache, deps, cfg, answers, now))

analyzeDependencies(c, deps, cfg, answers, now) ==
  IF deps = <<>> THEN [alerts |-> <<>>, cache |-> c, log |-> <<>>]
  ELSE analyzeDependenciesAfter(
         logged(analyzeDependency(c, Head(deps), cfg,
                                  answers[Head(deps).registry][Head(deps).name], now)),
         Tail(deps), cfg, answers, now)

isDependencyFile(p) == basename(p) \in HallucinationDependencyFiles

\* HallucinationSentinel.analyze: the loop over the manifests.
RECURSIVE HallucinationAnalyze(_, _, _, _, _)
RECURSIVE HallucinationAnalyzeAfter(_, _, _, _, _)
HallucinationAnalyzeAfter(one, fs, cfg, answers, now) ==
  followedBy(one, HallucinationAnalyze(one.cache, fs, cfg, answers, now))

HallucinationAnalyze(c, fs, cfg, answers, now) ==
  IF fs = <<>> THEN [alerts |-> <<>>, cache |-> c, log |-> <<>>]
  ELSE IF ~isDependencyFile(Head(fs).path) \/ Head(fs).failed
  THEN HallucinationAnalyze(c, Tail(fs), cfg, answers, now)
  ELSE HallucinationAnalyzeAfter(analyzeDependencies(c, Head(fs).deps, cfg, answers, now),
                                 Tail(fs), cfg, answers, now)

\* ------------------------------------------------------ VibechckFileScanner

\* The ignore patterns scanDirectory always adds.
hardCodedIgnores ==
  [k \in 1..10 |->
     <<Globstar,
       Lit(Dir(<<"node_modules", ".git", ".venv", "dist", "build", ".next", ".nuxt",
                 ".output", "target", "vendor">>[k])),
       Globstar>>]

\* glob(pattern, {cwd, ignore, nodir, absolute}): the entries below cwd, in
\* traversal order, that the pattern matches and no ignore pattern does.
glob(pattern, entries, cwd, ignore) ==
  LET keep(e) == /\ matchOne(e.rel, pattern)
                 /\ \A k \in 1..Len(ignore) : ~matchOne(e.rel, ignore[k])
      kept == SelectSeq(entries, keep)
  IN [k \in 1..Len(kept) |-> Absolute(cwd, kept[k].rel)]

\* [...new Set(files)]
RECURSIVE Unique(_)
Unique(s) ==
  IF s = <<>> THEN <<>>
  ELSE LET init == Unique(SubSeq(s, 1, Len(s) - 1))
       IN IF \E k \in 1..Len(init) : init[k] = Last(s) THEN init
          ELSE Append(init, Last(s))

\* The entry of the directory behind an absolute path.
EntryAt(entries, cwd, path) ==
  CHOOSE e \in {entries[k] : k \in 1..Len(entries)} : Absolute(cwd, e.rel) = path

filterByFileSize(paths, entries, cwd, cfg) ==
  SelectSeq(paths, LAMBDA p : EntryAt(entries, cwd, p).size <= cfg.scanning.maxFileSize)

scanDirectory(cwd, entries, cfg) ==
  LET ignore == cfg.scanning.exclude \o hardCodedIgnores
      found == Flatten([k \in 1..Len(cfg.scanning.include) |->
                 glob(cfg.scanning.include[k], entries, cwd, ignore)])
  IN filterByFileSize(Unique(found), entries, cwd, cfg)

\* fs.readFile and DependencyParser.parseDependencyFile of every listed file:
\* whether the read throws, and otherwise its lines, its imports and exports,
\* and for a manifest its dependencies, each with the manifest's path as
\* `file`.
ReadFiles(paths, entries, cwd, bad) ==
  [k \in 1..Len(paths) |->
     LET e == EntryAt(entries, cwd, paths[k])
     IN [path |-> paths[k], failed |-> e.rel \in bad, lines |-> e.lines,
         imports |-> e.imports, exports |-> e.exports,
         deps |-> [d \in 1..Len(e.deps) |->
                     [name |-> e.deps[d].name, registry |-> e.deps[d].registry,
                      file |-> JoinPath(paths[k])]]]]

\* The analyze of the laziness, security, architecture and cost modules calls
\* isRuleIgnored(<module>, file, config) for every source file outside its
\* per-file try block: when the call throws, the promise of analyze rejects.
analyzeRejects(module, paths, cfg) ==
  \E k \in 1..Len(paths) :
    isSourceFile(paths[k]) /\ isRuleIgnoredThrows(module, paths[k], cfg)

\* ----------------------------------------------------------- AnalysisEngine

Includes(seq, x) == \E k \in 1..Len(seq) : seq[k] = x

\* filterAlertsBySeverity, and a variant of it that lets every alert through.
filterAllSeverities(alerts, severities) == alerts
filterAlertsBySeverity(alerts, severities) ==
  SelectSeq(alerts, LAMBDA alert : Includes(severities, alert.severity))

\* deduplicateAlerts' key
DedupKey(alert) ==
  alert.file \o ":" \o Str(alert.line) \o ":" \o alert.rule \o ":" \o alert.message \o " "

RECURSIVE deduplicateFrom(_, _)
deduplicateFrom(alerts, seen) ==
  IF alerts = <<>> THEN <<>>
  ELSE LET key == DedupKey(Head(alerts))
       IN IF key \in seen THEN deduplicateFrom(Tail(alerts), seen)
          ELSE <<Head(alerts)>> \o deduplicateFrom(Tail(alerts), seen \cup {key})

\* deduplicateAlerts, and a variant of it that drops nothing.
keepAllAlerts(alerts) == alerts
deduplicateAlerts(alerts) == deduplicateFrom(alerts, {})

Count(alerts, severity) ==
  Cardinality({k \in 1..Len(alerts) : alerts[k].severity = severity})

generateSummary(alerts) ==
  [total |-> Len(alerts), critical |-> Count(alerts, CRITICAL), high |-> Count(alerts, HIGH),
   medium |-> Count(alerts, MEDIUM), low |-> Count(alerts, LOW)]

\* The Report analyze returns.
MakeReport(alerts, directory, fs, cfg, start, now) ==
  LET deduplicatedAlerts == deduplicateAlerts(filterAlertsBySeverity(alerts, cfg.severity))
  IN [summary |-> generateSummary(deduplicatedAlerts),
      alerts |-> deduplicatedAlerts,
      scanInfo |-> [directory |-> IF directory = <<>> THEN "/"
                                  ELSE JoinPath(<<RootSeg>> \o directory),
                    filesScanned |-> Len(fs),
                    scanDuration |-> now - start,
                    timestamp |-> now,
                    config |-> cfg]]

\* ------------------------------------------------------------ the scenarios

Span(s, e) == [s |-> s, e |-> e]
Line(m) == [m |-> m, skip |-> FALSE]

\*   const k = { apiKey: "sk0123456789abcdefghij" }
LineApiKey == Line("apikey" :> <<Span(12, 44)>>)
\*   run(new Function("return 1")); jwt.decode(t)
LineNewFunction ==
  Line(("Function(" :> <<Span(8, 17)>>) @@ ("new Function(" :> <<Span(4, 17)>>)
       @@ ("jwt.decode(" :> <<Span(32, 43)>>))
\*   jwt.decode(token, { algorithm: 'none' })
LineJwt == Line(("jwt.decode(" :> <<Span(0, 11)>>) @@ ("alg: none" :> <<Span(20, 37)>>))
\*   // Here is the updated code
LinePreamble == [m |-> ("Here is the updated code" :> <<Span(3, 27)>>), skip |-> TRUE]
\*   retry(42, eval(src))
LineMagicEval ==
  Line(("number" :> <<[s |-> 6, e |-> 8, text |-> "42"]>>) @@ ("eval(" :> <<Span(10, 15)>>))
\*   data = pickle.loads(blob)
LinePickle == Line("pickle.loads(" :> <<Span(7, 20)>>)
LinePlain == Line(<<>>)

Entry(rel, size, lines, deps) ==
  [rel |-> rel, size |-> size, lines |-> lines, deps |-> deps, imports |-> <<>>,
   exports |-> <<>>]

TreeA ==
  << Entry(<<Seg("package", ".json")>>, 300, <<>>, <<DepReacts, DepGhost>>),
     Entry(<<Dir("src"), Seg("a", ".ts")>>, 900, <<LineNewFunction, LineApiKey, LineJwt>>, <<>>),
     Entry(<<Dir("tests"), Dir("x"), Seg("a", ".ts")>>, 400, <<LinePreamble, LineMagicEval>>, <<>>) >>

TreeB ==
  << Entry(<<Seg("go", ".mod")>>, 80, <<>>, <<DepNext>>),
     Entry(<<Dir("node_modules"), Dir("m"), Seg("i", ".ts")>>, 100, <<LineApiKey>>, <<>>),
     Entry(<<Dir("src"), Seg("big", ".ts")>>, 2000000, <<LineJwt>>, <<>>),
     Entry(<<Dir("src"), Seg("b", ".py")>>, 500, <<LinePickle, LinePreamble, LinePickle>>, <<>>) >>

Trees == {TreeA, TreeB}
Roots == {<<>>, <<Dir("repo")>>}

Registries == {"npm", "go"}

\* Creation dates the registries report: long ago, a minute before the
\* model's time starts, and a minute short of half a day before it (the age
\* in days rounds to 0 at time 0 and to 1 from time 1 on).
OldDate == 0 - 100000
RecentDate == 0 - 1
HalfDayDate == 1 - (MinutesPerDay \div 2)

NetOf(reacts, ghost, next) ==
  [r \in Registries |->
     [n \in PackageNames |->
        IF n = DepReacts.name THEN reacts ELSE IF n = DepGhost.name THEN ghost ELSE next]]

Nets ==
  { NetOf(Ok(OldDate), NotFound, Ok(OldDate)),
    NetOf(Timeout, Ok(RecentDate), ServerError),
    NetOf(Ok(HalfDayDate), NotFound, OkNoDate) }

AllSeverities == <<CRITICAL, HIGH, MEDIUM, LOW>>
SeverityChoices == {AllSeverities, <<CRITICAL, HIGH, MEDIUM>>, <<CRITICAL>>, <<HIGH, LOW>>}

NoIgnoreRules == <<>>
SomeIgnoreRules ==
  ("magic-number" :> << <<Lit(Dir("tests")), Globstar, StarExt(".ts")>> >>)
  @@ ("hardcoded-secret" :> << <<Globstar, StarExt(".ts")>>, <<Lit(Seg("a", ".ts"))>> >>)
  @@ ("insecure-jwt" :> << <<Lit(Seg("a", ".ts"))>> >>)
  @@ ("phantom-package" :> << <<Lit(Seg("package", ".json"))>> >>)

ConfigOf(severity, ignoreRules, checkNewborn) ==
  [severity |-> severity,
   modules |-> [hallucination |-> TRUE, laziness |-> TRUE, security |-> TRUE,
                architecture |-> TRUE, cost |-> TRUE],
   hallucination |-> [packageAgeThresholdDays |-> 30, typosquatLevenshteinDistance |-> 1],
   laziness |-> [detectAIPreambles |-> TRUE],
   security |-> [detectHardcodedSecrets |-> TRUE, detectInsecureDeserialization |-> TRUE,
                 detectReact2Shell |-> TRUE, detectInsecureJWT |-> TRUE,
                 detectMissingEnvCheck |-> TRUE, secretEntropyThreshold |-> 45],
   architecture |-> [detectMixedNaming |-> TRUE, detectMagicNumbers |-> TRUE,
                     detectCircularDependencies |-> TRUE, detectUnusedExports |-> TRUE],
   supplyChain |-> [checkNewborn |-> checkNewborn],
   scanning |-> [include |-> << <<Globstar, StarExt(".ts")>>, <<Globstar, StarExt(".py")>>,
                                <<Globstar, StarExt(".json")>>, <<Globstar, StarExt(".mod")>> >>,
                 exclude |-> << <<Lit(Dir("node_modules")), Globstar>>,
                                <<Lit(Dir("dist")), Globstar>> >>,
                 maxFileSize |-> 1048576],
   ignoreRules |-> ignoreRules]

Configs ==
  {ConfigOf(s, i, n) : s \in SeverityChoices, i \in {NoIgnoreRules, SomeIgnoreRules},
                       n \in BOOLEAN}

\* ------------------------------------------------------------- the pipeline

Init ==
  /\ clock = 0
  /\ dir \in Roots
  /\ tree \in Trees
  /\ config \in Configs
  /\ net \in Nets
  /\ pc = "idle"
  /\ files = <<>>
  /\ allAlerts = <<>>
  /\ startTime = 0
  /\ reports = <<>>
  /\ cache = <<>>
  /\ calls = <<>>
  /\ depLog = <<>>
  /\ unreadable = {}
  /\ rejected = 0
  /\ scorecards = <<>>
  /\ importGraph = NoGraph
  /\ tasks = <<>>

\* Time passes.
Tick ==
  /\ clock < MaxClock
  /\ clock' = clock + 1
  /\ UNCHANGED <<importGraph, tasks, scorecards, unreadable, rejected, dir, tree, config, net, pc, files, allAlerts,
                 startTime, reports, cache, calls, depLog>>

\* analyze up to its first await: startTime, the scanner, the initialize hook.
StartAnalyze ==
  /\ pc = "idle"
  /\ Len(reports) + rejected < MaxRuns
  /\ startTime' = clock
  /\ pc' = "scan"
  /\ UNCHANGED <<importGraph, tasks, scorecards, unreadable, rejected, clock, dir, tree, config, net,
                 files, allAlerts, reports, cache, calls, depLog>>

\* files = await this.fileScanner.scanDirectory(directory); allAlerts = []
Scan ==
  /\ pc = "scan"
  /\ files' = scanDirectory(dir, tree, config)
  /\ allAlerts' = <<>>
  /\ pc' = "hallucination"
  /\ UNCHANGED <<importGraph, tasks, scorecards, unreadable, rejected, clock, dir, tree, config, net,
                 startTime, reports, cache, calls, depLog>>

\* The onAnalyze taps, in registration order.
RunHallucination ==
  /\ pc = "hallucination"
  /\ IF config.modules.hallucination
     THEN \E r \in {HallucinationAnalyze(cache, ReadFiles(files, tree, dir, unreadable), config, net, clock)} :
            /\ allAlerts' = allAlerts \o r.alerts
            /\ cache' = r.cache
            /\ depLog' = r.log
     ELSE UNCHANGED <<allAlerts, cache, depLog>>
  /\ pc' = "laziness"
  /\ UNCHANGED <<importGraph, tasks, scorecards, unreadable, rejected, clock, dir, tree, config, net,
                 files, startTime, reports, calls>>

RunLaziness ==
  /\ pc = "laziness"
  /\ IF config.modules.laziness /\ analyzeRejects("laziness", files, config)
     THEN /\ pc' = "idle"
          /\ rejected' = rejected + 1
          /\ UNCHANGED allAlerts
     ELSE /\ allAlerts' = IF config.modules.laziness
                          THEN allAlerts \o LazinessAnalyze(ReadFiles(files, tree, dir, unreadable), config, clock)
                          ELSE allAlerts
          /\ pc' = "security"
          /\ UNCHANGED rejected
  /\ UNCHANGED <<importGraph, tasks, scorecards, unreadable, clock, dir, tree, config, net, files, startTime,
                 reports, cache, calls, depLog>>

\* The security tap, and a variant of it that puts its alerts in front.
RunSecurityFirst ==
  /\ pc = "security"
  /\ IF config.modules.security /\ analyzeRejects("security", files, config)
     THEN /\ pc' = "idle"
          /\ rejected' = rejected + 1
          /\ UNCHANGED allAlerts
     ELSE /\ allAlerts' = IF config.modules.security
                          THEN SecurityAnalyze(ReadFiles(files, tree, dir, unreadable), config, clock) \o allAlerts
                          ELSE allAlerts
          /\ pc' = "architecture"
          /\ UNCHANGED rejected
  /\ UNCHANGED <<importGraph, tasks, scorecards, unreadable, clock, dir, tree, config, net, files, startTime,
                 reports, cache, calls, depLog>>
RunSecurity ==
  /\ pc = "security"
  /\ IF config.modules.security /\ analyzeRejects("security", files, config)
     THEN /\ pc' = "idle"
          /\ rejected' = rejected + 1
          /\ UNCHANGED allAlerts
     ELSE /\ allAlerts' = IF config.modules.security
                          THEN allAlerts \o SecurityAnalyze(ReadFiles(files, tree, dir, unreadable), config, clock)
                          ELSE allAlerts
          /\ pc' = "architecture"
          /\ UNCHANGED rejected
  /\ UNCHANGED <<importGraph, tasks, scorecards, unreadable, clock, dir, tree, config, net, files, startTime,
                 reports, cache, calls, depLog>>

\* The architecture tap, and a variant of it that puts its alerts in front.
RunArchitectureFirst ==
  /\ pc = "architecture"
  /\ IF config.modules.architecture /\ analyzeRejects("architecture", files, config)
     THEN /\ pc' = "idle"
          /\ rejected' = rejected + 1
          /\ UNCHANGED allAlerts
     ELSE /\ allAlerts' = IF config.modules.architecture
                          THEN ArchitectureAnalyze(ReadFiles(files, tree, dir, unreadable), config, clock) \o allAlerts
                          ELSE allAlerts
          /\ pc' = "cost"
          /\ UNCHANGED rejected
  /\ importGraph' = IF config.modules.architecture
                    THEN buildImportGraph(SelectSeq(ReadFiles(files, tree, dir, unreadable),
                                                    LAMBDA f : isSourceFile(f.path)))
                    ELSE importGraph
  /\ UNCHANGED <<tasks, scorecards, unreadable, clock, dir, tree, config, net, files, startTime,
                 reports, cache, calls, depLog>>
RunArchitecture ==
  /\ pc = "architecture"
  /\ IF config.modules.architecture /\ analyzeRejects("architecture", files, config)
     THEN /\ pc' = "idle"
          /\ rejected' = rejected + 1
          /\ UNCHANGED allAlerts
     ELSE /\ allAlerts' = IF config.modules.architecture
                          THEN allAlerts \o ArchitectureAnalyze(ReadFiles(files, tree, dir, unreadable), config, clock)
                          ELSE allAlerts
          /\ pc' = "cost"
          /\ UNCHANGED rejected
  /\ importGraph' = IF config.modules.architecture
                    THEN buildImportGraph(SelectSeq(ReadFiles(files, tree, dir, unreadable),
                                                    LAMBDA f : isSourceFile(f.path)))
                    ELSE importGraph
  /\ UNCHANGED <<tasks, scorecards, unreadable, clock, dir, tree, config, net, files, startTime,
                 reports, cache, calls, depLog>>

RunCost ==
  /\ pc = "cost"
  /\ IF config.modules.cost /\ analyzeRejects("cost", files, config)
     THEN /\ pc' = "idle"
          /\ rejected' = rejected + 1
          /\ UNCHANGED allAlerts
     ELSE /\ allAlerts' = IF config.modules.cost
                          THEN allAlerts \o CostAnalyze(ReadFiles(files, tree, dir, unreadable), config, clock)
                          ELSE allAlerts
          /\ pc' = "finish"
          /\ UNCHANGED rejected
  /\ UNCHANGED <<importGraph, tasks, scorecards, unreadable, clock, dir, tree, config, net, files, startTime,
                 reports, cache, calls, depLog>>

\* After the hooks: filter, deduplicate, and return the Report.
Finish ==
  /\ pc = "finish"
  /\ reports' = Append(reports, MakeReport(allAlerts, dir, files, config, startTime, clock))
  /\ pc' = "idle"
  /\ UNCHANGED <<importGraph, tasks, scorecards, unreadable, rejected, clock, dir, tree, config, net,
                 files, allAlerts, startTime, cache, calls, depLog>>

Next ==
  \/ Tick
  \/ StartAnalyze
  \/ Scan
  \/ RunHallucination
  \/ RunLaziness
  \/ RunSecurity
  \/ RunArchitecture
  \/ RunCost
  \/ Finish

Spec == Init /\ [][Next]_vars

\* ---------------------------------------------------------- ScorecardClient

\* private cacheTimeout = 60 * 60 * 1000, in minutes
scorecardCacheTimeout == 60

\* A repository URL: the scheme, the host, the two path parts that follow and
\* whether the second ends in ".git".  The empty URL is NoUrl.
Url(scheme, domain, org, repo, git) ==
  [scheme |-> scheme, domain |-> domain, org |-> org, repo |-> repo, git |-> git]
NoUrl == Url("", "", "", "", FALSE)

UrlStr(u) ==
  IF u = NoUrl THEN ""
  ELSE u.scheme \o "://" \o u.domain \o "/" \o u.org \o "/" \o u.repo
         \o (IF u.git THEN ".git" ELSE "")

\* repositoryUrl.match(/https?:\/\/([^/]+)\/([^/]+)\/([^/?#]+)/)
urlMatches(u) == u # NoUrl /\ u.scheme \in {"http", "https"}

platformOf(u) ==
  IF u.domain = "github.com" THEN "github.com"
  ELSE IF u.domain = "gitlab.com" THEN "gitlab.com" ELSE ""

\* `${platform}/${org}/${repo}`, the repo without its .git
scoreKeyOf(u) == platformOf(u) \o "/" \o u.org \o "/" \o u.repo

NullScore == [null |-> TRUE]
ScorecardResult(score, date) == [score |-> score, date |-> date]

\* What the scorecard endpoint does with one request.
ScoreOk(score, date) == [status |-> "200", score |-> score, date |-> date]
ScoreNotFound == [status |-> "404", score |-> 0, date |-> 0]
ScoreError == [status |-> "500", score |-> 0, date |-> 0]

\* `cached && Date.now() - cached.date.getTime() < this.cacheTimeout`
scoreHit(c, cacheKey, now) ==
  /\ cacheKey \in DOMAIN c
  /\ c[cacheKey] # NullScore
  /\ now - c[cacheKey].date < scorecardCacheTimeout

\* this.cache.set(cacheKey, value)
scoreSet(c, cacheKey, value) ==
  [k \in DOMAIN c \cup {cacheKey} |-> IF k = cacheKey THEN value ELSE c[k]]

\* getScore after the endpoint's answer: the result is cached, a 404 is
\* cached as null, any other failure is logged.
scoreFetched(c, cacheKey, answer) ==
  CASE answer.status = "200" ->
         [ret |-> ScorecardResult(answer.score, answer.date),
          cache |-> scoreSet(c, cacheKey, ScorecardResult(answer.score, answer.date)),
          network |-> TRUE, key |-> cacheKey]
    [] answer.status = "404" ->
         [ret |-> NullScore, cache |-> scoreSet(c, cacheKey, NullScore), network |-> TRUE,
          key |-> cacheKey]
    [] OTHER -> [ret |-> NullScore, cache |-> c, network |-> TRUE, key |-> cacheKey]

\* ScorecardClient.getScore: the value returned, the cache afterwards, whether
\* a request went to the network, and the cache key ("" when the URL is not
\* taken).
getScore(c, repositoryUrl, answer, now) ==
  IF UrlStr(repositoryUrl) = "" \/ ~urlMatches(repositoryUrl)
       \/ platformOf(repositoryUrl) = ""
  THEN [ret |-> NullScore, cache |-> c, network |-> FALSE, key |-> ""]
  ELSE IF scoreHit(c, scoreKeyOf(repositoryUrl), now)
  THEN [ret |-> c[scoreKeyOf(repositoryUrl)], cache |-> c, network |-> FALSE,
        key |-> scoreKeyOf(repositoryUrl)]
  ELSE scoreFetched(c, scoreKeyOf(repositoryUrl), answer)

\* ------------------------------------------ the scorecard client on its own

RepositoryUrls ==
  { Url("https", "github.com", "facebook", "react", FALSE),
    Url("http", "github.com", "facebook", "react", TRUE),
    Url("https", "gitlab.com", "org", "tool", FALSE),
    Url("https", "bitbucket.org", "org", "tool", FALSE),
    NoUrl }

ScoreAnswers == { ScoreOk(7, RecentDate), ScoreOk(3, OldDate), ScoreNotFound, ScoreError }

InitScorecard ==
  /\ clock = 0
  /\ dir = <<>>
  /\ tree = <<>>
  /\ config = ConfigOf(AllSeverities, NoIgnoreRules, FALSE)
  /\ net = NetOf(NotFound, NotFound, NotFound)
  /\ pc = "idle"
  /\ files = <<>>
  /\ allAlerts = <<>>
  /\ startTime = 0
  /\ reports = <<>>
  /\ cache = <<>>
  /\ calls = <<>>
  /\ depLog = <<>>
  /\ unreadable = {}
  /\ rejected = 0
  /\ scorecards = <<>>
  /\ importGraph = NoGraph
  /\ tasks = <<>>

\* await scorecardClient.getScore(url), the endpoint answering as it pleases
CallGetScore ==
  /\ Len(calls) < MaxCalls
  /\ \E url \in RepositoryUrls, answer \in ScoreAnswers :
       \E r \in {getScore(scorecards, url, answer, clock)} :
         /\ scorecards' = r.cache
         /\ calls' = Append(calls, [op |-> "getScore", key |-> r.key, at |-> clock,
                                    network |-> r.network, ret |-> r.ret,
                                    status |-> IF r.network THEN answer.status
                                               ELSE IF r.key = "" THEN "refused"
                                               ELSE "cached"])
  /\ UNCHANGED <<importGraph, tasks, unreadable, rejected, clock, dir, tree, config, net, pc,
                 files, allAlerts,
                 startTime, reports, cache, depLog>>

NextScorecard ==
  \/ Tick
  \/ CallGetScore

SpecScorecard == InitScorecard /\ [][NextScorecard]_vars

\* --------------------------------- analyzeDependencies called on its own

\* The dependencies a manifest may hold and the valid typosquat distances.
ManifestDeps ==
  { [name |-> d.name, registry |-> d.registry, file |-> "/package.json"] :
      d \in {DepReacts, DepGhost, DepNext, DepReact} }

TyposquatDistances == 1..3

DistanceConfigs ==
  { [ConfigOf(AllSeverities, NoIgnoreRules, n)
       EXCEPT !.hallucination.typosquatLevenshteinDistance = d] :
      n \in BOOLEAN, d \in TyposquatDistances }

InitDependencies ==
  /\ clock = 0
  /\ dir = <<>>
  /\ tree = <<>>
  /\ config \in DistanceConfigs
  /\ net \in Nets
  /\ pc = "idle"
  /\ files = <<>>
  /\ allAlerts = <<>>
  /\ startTime = 0
  /\ reports = <<>>
  /\ cache = <<>>
  /\ calls = <<>>
  /\ depLog = <<>>
  /\ unreadable = {}
  /\ rejected = 0
  /\ scorecards = <<>>
  /\ importGraph = NoGraph
  /\ tasks = <<>>

\* await this.analyzeDependencies([dep], config)
CallAnalyzeDependencies ==
  /\ Len(depLog) < MaxCalls
  /\ \E dep \in ManifestDeps :
       \E r \in {analyzeDependencies(cache, <<dep>>, config, net, clock)} :
         /\ allAlerts' = allAlerts \o r.alerts
         /\ cache' = r.cache
         /\ depLog' = depLog \o r.log
  /\ UNCHANGED <<importGraph, tasks, scorecards, unreadable, rejected, clock, dir, tree, config, net, pc, files,
                 startTime, reports, calls>>

NextDependencies ==
  \/ Tick
  \/ CallAnalyzeDependencies

SpecDependencies == InitDependencies /\ [][NextDependencies]_vars

\* ------------------------------------------- a project with faulty inputs

\*   log("retry 42 times")
LineNumberInString ==
  Line(("number" :> <<[s |-> 11, e |-> 13, text |-> "42"]>>) @@ ("string" :> <<Span(4, 20)>>))
\*   wait(250)
LineMagic == Line("number" :> <<[s |-> 5, e |-> 8, text |-> "250"]>>)

Source(rel, size, lines, imports, exports) ==
  [rel |-> rel, size |-> size, lines |-> lines, deps |-> <<>>, imports |-> imports,
   exports |-> exports]

\* src/a.ts and src/b.ts import each other; nothing imports h of src/b.ts.
Manifest == Entry(<<Seg("package", ".json")>>, 300, <<>>, <<DepReacts, DepGhost>>)
ModuleA ==
  Source(<<Dir("src"), Seg("a", ".ts")>>, 700, <<LineNumberInString, LineMagic>>,
         <<Import(<<Dir("."), Dir("b")>>, {"f"})>>, <<"g">>)
ModuleB ==
  Source(<<Dir("src"), Seg("b", ".ts")>>, 600, <<LineNewFunction>>,
         <<Import(<<Dir("."), Dir("a")>>, {"g"})>>, <<"f", "h">>)

ProjectTrees == { <<Manifest, ModuleA, ModuleB>>, <<Manifest, ModuleB, ModuleA>> }

\* The configuration analyze uses when no file is found.
DEFAULT_CONFIG == ConfigOf(<<CRITICAL, HIGH, MEDIUM>>, NoIgnoreRules, FALSE)

\* ignoreRules: { <module>: [<not a string>] }
BrokenIgnoreRules(module) == module :> <<InvalidPattern>>

ProjectConfigs ==
  {DEFAULT_CONFIG, ConfigOf(AllSeverities, NoIgnoreRules, FALSE)}
  \cup {ConfigOf(AllSeverities, BrokenIgnoreRules(m), FALSE) :
          m \in {"laziness", "security", "architecture", "cost"}}

Unreadables == { {}, {ModuleA.rel}, {ModuleB.rel}, {Manifest.rel} }

InitProject ==
  /\ clock = 0
  /\ dir = <<Dir("repo")>>
  /\ tree \in ProjectTrees
  /\ config \in ProjectConfigs
  /\ net = NetOf(Ok(OldDate), NotFound, Ok(OldDate))
  /\ pc = "idle"
  /\ files = <<>>
  /\ allAlerts = <<>>
  /\ startTime = 0
  /\ reports = <<>>
  /\ cache = <<>>
  /\ calls = <<>>
  /\ depLog = <<>>
  /\ unreadable \in Unreadables
  /\ rejected = 0
  /\ scorecards = <<>>
  /\ importGraph = NoGraph
  /\ tasks = <<>>

SpecProject == InitProject /\ [][Next]_vars

\* ------------------------------------- a directory of many kinds of source

\* cmd/worker.go and src/notes.ts both hold the line
\*   // Here is the updated code
GoWorker ==
  Source(<<Dir("cmd"), Seg("worker", ".go")>>, 200, <<LinePlain, LinePreamble>>, <<>>, <<>>)
TsNotes ==
  Source(<<Dir("src"), Seg("notes", ".ts")>>, 210, <<LinePlain, LinePreamble>>, <<>>, <<>>)

LanguagesTree == <<GoWorker, TsNotes>>

\* src/main.ts imports `used` from ./util and everything from ./lib; nothing
\* imports `spare` of src/util.ts, `h` of src/domain.ts or `run` of src/main.ts.
TsMain ==
  Source(<<Dir("src"), Seg("main", ".ts")>>, 300, <<LinePlain>>,
         <<Import(<<Dir("."), Dir("util")>>, {"used"}), Import(<<Dir("."), Dir("lib")>>, {"*"})>>,
         <<"run">>)
TsUtil == Source(<<Dir("src"), Seg("util", ".ts")>>, 310, <<LinePlain>>, <<>>, <<"used", "spare">>)
TsLib == Source(<<Dir("src"), Seg("lib", ".ts")>>, 320, <<LinePlain>>, <<>>, <<"a", "b">>)
TsDomain == Source(<<Dir("src"), Seg("domain", ".ts")>>, 330, <<LinePlain>>, <<>>, <<"h">>)

ExportsTree == <<TsMain, TsUtil, TsLib, TsDomain>>

\* pkg/app.py:   from .models import User, Role as R
\*               from os.path import join
PyApp ==
  Source(<<Dir("pkg"), Seg("app", ".py")>>, 400, <<LinePlain>>,
         <<Import(<<Dir(".models")>>, {"User", "Role"}), Import(<<Dir("os.path")>>, {"join"})>>,
         <<>>)
PyModels == Source(<<Dir("pkg"), Seg("models", ".py")>>, 410, <<LinePlain>>, <<>>, <<>>)

PythonTree == <<PyApp, PyModels>>

\* src/auth.ts:      const a = jwt.decode(t)
\*                  jwt.decode(u)
\*                  run(eval(src))
\*                  eval(more)
LineJwtIndented == Line("jwt.decode(" :> <<Span(12, 23)>>)
LineJwtAtStart == Line("jwt.decode(" :> <<Span(0, 11)>>)
LineEvalIndented == Line("eval(" :> <<Span(4, 9)>>)
LineEvalAtStart == Line("eval(" :> <<Span(0, 5)>>)
TsAuth ==
  Source(<<Dir("src"), Seg("auth", ".ts")>>, 500,
         <<LineJwtIndented, LineJwtAtStart, LineEvalIndented, LineEvalAtStart>>, <<>>, <<>>)
\* src/load.py:          x = pickle.loads(a)
\*                  y = pickle.loads(b)
LinePickleIndented == Line("pickle.loads(" :> <<Span(12, 25)>>)
PyLoad ==
  Source(<<Dir("src"), Seg("load", ".py")>>, 510, <<LinePickleIndented, LinePickle>>, <<>>, <<>>)

MatchersTree == <<TsAuth, PyLoad>>

\* src/actions.ts:   'use server'
\*                   export async function save(data) { await db.insert(data) }
\*                   export async function load(id) {
\*                     const key = schema.parse(id)
\*                     return db.find(key) }
\*                   "kept for the log"
\*                   export async function drop(id) { await db.remove(id) }
\* src/plain.ts:     export async function save(data) { await db.insert(data) }
LineUseServer == Line(("use server" :> <<Span(0, 12)>>) @@ ("quote" :> <<Span(0, 1)>>))
LineAction(name) ==
  Line(("export async function" :> <<[s |-> 0, e |-> 32, text |-> name]>>)
       @@ ("{" :> <<Span(33, 34)>>) @@ ("}" :> <<Span(58, 59)>>))
LineActionOpen(name) ==
  Line(("export async function" :> <<[s |-> 0, e |-> 30, text |-> name]>>)
       @@ ("{" :> <<Span(31, 32)>>))
LineParse == Line("validation" :> <<Span(19, 26)>>)
LineReturnClose == Line("}" :> <<Span(21, 22)>>)
LineQuoted == Line("quote" :> <<Span(0, 1)>>)
TsActions ==
  Source(<<Dir("src"), Seg("actions", ".ts")>>, 600,
         <<LineUseServer, LineAction("save"), LineActionOpen("load"), LineParse,
           LineReturnClose, LineQuoted, LineAction("drop")>>, <<>>, <<>>)
TsPlain == Source(<<Dir("src"), Seg("plain", ".ts")>>, 610, <<LineAction("save")>>, <<>>, <<>>)

ActionsTree == <<TsActions, TsPlain>>

\* src/types.ts:   export interface BackendResponse { user_id: string; created_at: string; }
\*                 const userName = row.user_name
\* src/model.ts:   export interface Row {
\*                   user_id: string; createdAt: string
\*                 }
\*                 const userName = row.user_name
\*                 export type User_Meta = { loginCount: number; last_ip: string }
LineInterfaceOneLine ==
  Line(("interface" :> <<Span(0, 32)>>) @@ ("{" :> <<Span(33, 34)>>) @@ ("}" :> <<Span(73, 74)>>)
       @@ ("snake_case" :> <<Span(35, 42), Span(52, 62)>>))
LineMixed == Line(("camelCase" :> <<Span(6, 14)>>) @@ ("snake_case" :> <<Span(21, 30)>>))
LineInterfaceOpen == Line(("interface" :> <<Span(0, 20)>>) @@ ("{" :> <<Span(21, 22)>>))
LineMixedMembers == Line(("snake_case" :> <<Span(2, 9)>>) @@ ("camelCase" :> <<Span(19, 28)>>))
LineClose == Line(("close brace" :> <<Span(0, 1)>>) @@ ("}" :> <<Span(0, 1)>>))
LineTypeAlias ==
  Line(("type alias" :> <<Span(0, 23)>>) @@ ("{" :> <<Span(24, 25)>>) @@ ("}" :> <<Span(62, 63)>>)
       @@ ("camelCase" :> <<Span(26, 36)>>) @@ ("snake_case" :> <<Span(46, 53)>>))
TsTypes ==
  Source(<<Dir("src"), Seg("types", ".ts")>>, 700, <<LineInterfaceOneLine, LineMixed>>, <<>>, <<>>)
TsModel ==
  Source(<<Dir("src"), Seg("model", ".ts")>>, 710,
         <<LineInterfaceOpen, LineMixedMembers, LineClose, LineMixed, LineTypeAlias>>, <<>>, <<>>)

NamingTree == <<TsTypes, TsModel>>

\* src/users.ts:    await User.deleteMany({})
\* src/orders.ts:   await Order.deleteMany({})
\* src/admin.ts:    if (process.env.NODE_ENV !== 'production') {
\*                    await Log.deleteMany({}) }
LineDeleteMany == Line("destructive" :> <<[s |-> 10, e |-> 22, text |-> "deleteMany"]>>)
LineEnvCheck == Line("env check" :> <<Span(4, 24)>>)
TsUsers == Source(<<Dir("src"), Seg("users", ".ts")>>, 800, <<LineDeleteMany>>, <<>>, <<>>)
TsOrders == Source(<<Dir("src"), Seg("orders", ".ts")>>, 810, <<LineDeleteMany>>, <<>>, <<>>)
TsAdmin ==
  Source(<<Dir("src"), Seg("admin", ".ts")>>, 820, <<LineEnvCheck, LineDeleteMany>>, <<>>, <<>>)

OperationsTree == <<TsUsers, TsOrders, TsAdmin>>

SourcesTrees ==
  {LanguagesTree, ExportsTree, PythonTree, MatchersTree, ActionsTree, NamingTree,
   OperationsTree}

\* The default include patterns that the directory's files need.
SourcesInclude ==
  << <<Globstar, StarExt(".ts")>>, <<Globstar, StarExt(".js")>>, <<Globstar, StarExt(".py")>>,
     <<Globstar, StarExt(".go")>>, <<Globstar, StarExt(".rs")>>, <<Globstar, StarExt(".json")>> >>

SourcesConfigs ==
  { [ConfigOf(s, NoIgnoreRules, FALSE) EXCEPT !.scanning.include = SourcesInclude] :
      s \in {AllSeverities, <<CRITICAL, HIGH, MEDIUM>>} }

InitSources ==
  /\ clock = 0
  /\ dir \in Roots
  /\ tree \in SourcesTrees
  /\ config \in SourcesConfigs
  /\ net = NetOf(Ok(OldDate), NotFound, Ok(OldDate))
  /\ pc = "idle"
  /\ files = <<>>
  /\ allAlerts = <<>>
  /\ startTime = 0
  /\ reports = <<>>
  /\ cache = <<>>
  /\ calls = <<>>
  /\ depLog = <<>>
  /\ unreadable = {}
  /\ rejected = 0
  /\ scorecards = <<>>
  /\ importGraph = NoGraph
  /\ tasks = <<>>

SpecSources == InitSources /\ [][Next]_vars

\* ------------------------------ ArchitectureScanner.analyze, called twice

\* The engine registers one ArchitectureScanner, and the scanner keeps the
\* import graph in a field. analyze is asynchronous: it runs until an await
\* and continues when the awaited promise has settled, and in between a
\* second call of analyze on the same scanner may run. A step below is what
\* one call does between two awaits.
Callers == {1, 2}

\* The two projects of the directory; a caller passes the files of one.
OverlapProjects == {ExportsTree, <<ModuleA, ModuleB>>}
OverlapTree == ExportsTree \o <<ModuleA, ModuleB>>

\* ignoreRules: { architecture: ['**/lib.ts'] }
IgnoreLib == "architecture" :> << <<Globstar, Lit(Seg("lib", ".ts"))>> >>

OverlapConfigs ==
  { [ConfigOf(AllSeverities, i, FALSE) EXCEPT !.scanning.include = SourcesInclude] :
      i \in {NoIgnoreRules, IgnoreLib} }

\* A call that has not been made.
NoCall ==
  [pc |-> "idle", list |-> <<>>, k |-> 1, alerts |-> <<>>, built |-> NoGraph,
   read |-> NoGraph, cross |-> <<>>]

\* importGraph.nodes.set(file, node) and importGraph.edges.set(file, ...): a
\* key the map holds keeps its place.
withNode(g, f) ==
  LET node == ImportNode(f)
      targets == [i \in 1..Len(SetOf(node.imports)) |-> SetOf(node.imports)[i].x]
      held == {k \in 1..Len(g.nodes) : g.nodes[k].filePath = f.path}
  IN IF held = {}
     THEN [nodes |-> Append(g.nodes, node), edges |-> Append(g.edges, targets)]
     ELSE [nodes |-> [k \in 1..Len(g.nodes) |-> IF k \in held THEN node ELSE g.nodes[k]],
           edges |-> [k \in 1..Len(g.edges) |-> IF k \in held THEN targets ELSE g.edges[k]]]

\* The loop over the files passes an ignored file without an await: the index
\* of the next file from k on that is read, or one past the list.
nextAnalyzed(list, k, cfg) ==
  LET later == {j \in k..Len(list) : ~isRuleIgnored("architecture", list[j].path, cfg)}
  IN IF later = {} THEN Len(list) + 1 ELSE CHOOSE j \in later : \A i \in later : j <= i

\* The end of analyze: the cross-file checks read the scanner's graph, and
\* the call returns its alerts.
Returned(task, g, cross) ==
  [task EXCEPT !.pc = "done", !.read = g, !.cross = cross, !.alerts = task.alerts \o cross]

\* analyze up to the first await: the list is filtered, buildImportGraph
\* replaces the graph by an empty one and starts reading the first file.
CallAnalyze(t) ==
  /\ tasks[t].pc = "idle"
  /\ \E project \in OverlapProjects :
       LET list == SelectSeq(ReadFiles(scanDirectory(dir, project, config), tree, dir,
                                       unreadable),
                             LAMBDA f : isSourceFile(f.path))
       IN tasks' = [tasks EXCEPT ![t] =
                      [NoCall EXCEPT !.pc = IF list = <<>> THEN "built" ELSE "build",
                                     !.list = list]]
  /\ importGraph' = NoGraph
  /\ UNCHANGED <<scorecards, unreadable, rejected, clock, dir, tree, config, net, pc, files,
                 allAlerts, startTime, reports, cache, calls, depLog>>

\* buildImportGraph when the read of file k has settled: the file's node goes
\* into the graph the field holds now, and the next read starts; after the
\* last file the graph of this call is constructed.
BuildNode(t) ==
  /\ tasks[t].pc = "build"
  /\ LET task == tasks[t]
         f == task.list[task.k]
         g == IF f.failed THEN importGraph ELSE withNode(importGraph, f)
     IN /\ importGraph' = g
        /\ tasks' = [tasks EXCEPT ![t] =
                       IF task.k < Len(task.list)
                       THEN [task EXCEPT !.k = task.k + 1]
                       ELSE [task EXCEPT !.pc = "built", !.built = g]]
  /\ UNCHANGED <<scorecards, unreadable, rejected, clock, dir, tree, config, net, pc, files,
                 allAlerts, startTime, reports, cache, calls, depLog>>

\* analyze when the promise of buildImportGraph has settled: the loop over
\* the files starts reading the first file that is not ignored; when there is
\* none the cross-file checks run at once.
StartFiles(t) ==
  /\ tasks[t].pc = "built"
  /\ LET task == tasks[t]
         k == nextAnalyzed(task.list, 1, config)
     IN IF k <= Len(task.list)
        THEN tasks' = [tasks EXCEPT ![t] = [task EXCEPT !.pc = "files", !.k = k]]
        ELSE \E cross \in {crossFileAlerts(importGraph, config, clock)} :
               tasks' = [tasks EXCEPT ![t] = Returned(task, importGraph, cross)]
  /\ UNCHANGED <<importGraph, scorecards, unreadable, rejected, clock, dir, tree, config, net,
                 pc, files, allAlerts, startTime, reports, cache, calls, depLog>>

\* analyze when file k has been read and analysed: its alerts are kept (none
\* when the read threw), and the loop goes on to the next file that is not
\* ignored; after the last one the cross-file checks run and analyze returns.
AnalyzeNext(t) ==
  /\ tasks[t].pc = "files"
  /\ LET task == tasks[t]
         f == task.list[task.k]
         k == nextAnalyzed(task.list, task.k + 1, config)
         kept == [task EXCEPT !.alerts = task.alerts
                                \o (IF f.failed THEN <<>>
                                    ELSE ArchitectureAnalyzeFile(f, config, clock))]
     IN IF k <= Len(task.list)
        THEN tasks' = [tasks EXCEPT ![t] = [kept EXCEPT !.k = k]]
        ELSE \E cross \in {crossFileAlerts(importGraph, config, clock)} :
               tasks' = [tasks EXCEPT ![t] = Returned(kept, importGraph, cross)]
  /\ UNCHANGED <<importGraph, scorecards, unreadable, rejected, clock, dir, tree, config, net,
                 pc, files, allAlerts, startTime, reports, cache, calls, depLog>>

NextOverlap ==
  \E t \in Callers : CallAnalyze(t) \/ BuildNode(t) \/ StartFiles(t) \/ AnalyzeNext(t)

InitOverlap ==
  /\ clock = 0
  /\ dir \in Roots
  /\ tree = OverlapTree
  /\ config \in OverlapConfigs
  /\ net = NetOf(Ok(OldDate), NotFound, Ok(OldDate))
  /\ pc = "idle"
  /\ files = <<>>
  /\ allAlerts = <<>>
  /\ startTime = 0
  /\ reports = <<>>
  /\ cache = <<>>
  /\ calls = <<>>
  /\ depLog = <<>>
  /\ unreadable \in {{}, {TsUtil.rel}}
  /\ rejected = 0
  /\ scorecards = <<>>
  /\ importGraph = NoGraph
  /\ tasks = [t \in Callers |-> NoCall]

SpecOverlap == InitOverlap /\ [][NextOverlap]_vars



\* ------------------------------------------- the registry client, called

\* The lookups a caller of the client makes: the scenarios' dependencies and
\* one in a registry the client does not support.
Lookups == {DepReacts, DepGhost, DepNext, Dep(DepGhost.name, "maven")}

\* The registry's answer to a request for the dependency; a registry the
\* client does not support is never asked.
AnswerTo(dep) ==
  IF dep.registry \in Registries THEN net[dep.registry][dep.name] ELSE NotFound

\* What a call met: served from the cache, refused, or the response.
StatusOf(dep, r) ==
  IF r.network THEN AnswerTo(dep).status
  ELSE IF r.threw THEN "unsupported" ELSE "cached"

Called(op, dep, r, info) ==
  [op |-> op, name |-> dep.name, registry |-> dep.registry, at |-> clock,
   network |-> r.network, threw |-> r.threw, ret |-> r.ret, info |-> info,
   status |-> StatusOf(dep, r)]

InitRegistry ==
  /\ clock = 0
  /\ dir = <<>>
  /\ tree = <<>>
  /\ config = ConfigOf(AllSeverities, NoIgnoreRules, FALSE)
  /\ net \in Nets
  /\ pc = "idle"
  /\ files = <<>>
  /\ allAlerts = <<>>
  /\ startTime = 0
  /\ reports = <<>>
  /\ cache = <<>>
  /\ calls = <<>>
  /\ depLog = <<>>
  /\ unreadable = {}
  /\ rejected = 0
  /\ scorecards = <<>>
  /\ importGraph = NoGraph
  /\ tasks = <<>>

\* await registryClient.getPackageInfo(name, registry)
CallGetPackageInfo ==
  /\ Len(calls) < MaxCalls
  /\ \E dep \in Lookups :
       \E r \in {getPackageInfo(cache, dep.name, dep.registry, AnswerTo(dep), clock)} :
          /\ cache' = r.cache
          /\ calls' = Append(calls, Called("getPackageInfo", dep, r, r.ret))
  /\ UNCHANGED <<importGraph, tasks, scorecards, unreadable, rejected, clock, dir, tree, config, net,
                 pc, files, allAlerts, startTime, reports, depLog>>

\* await registryClient.checkPackageExists(name, registry)
CallCheckPackageExists ==
  /\ Len(calls) < MaxCalls
  /\ \E dep \in Lookups :
       \E r \in {checkPackageExists(cache, dep.name, dep.registry, AnswerTo(dep), clock)} :
         \E g \in {getPackageInfo(cache, dep.name, dep.registry, AnswerTo(dep), clock)} :
           /\ cache' = r.cache
           /\ calls' = Append(calls, Called("checkPackageExists", dep, r, g.ret))
  /\ UNCHANGED <<importGraph, tasks, scorecards, unreadable, rejected, clock, dir, tree, config, net,
                 pc, files, allAlerts, startTime, reports, depLog>>

NextRegistry ==
  \/ Tick
  \/ CallGetPackageInfo
  \/ CallCheckPackageExists

SpecRegistry == InitRegistry /\ [][NextRegistry]_vars

SameLookup(a, b) == a.name = b.name /\ a.registry = b.registry

\* C5: once a call has fetched a Package Info, every later call for the same
\* (name, registry) made less than 5 minutes after the fetch is served from
\* the cache, without a request, whatever the package's creation date.
C5_HitWithinTimeout ==
  \A i, j \in 1..Len(calls) :
    (/\ i < j
     /\ calls[i].network /\ calls[i].status = "200"
     /\ SameLookup(calls[i], calls[j])
     /\ calls[j].at - calls[i].at < cacheTimeout)
    => /\ ~calls[j].network
       /\ calls[j].info = calls[i].info
       /\ calls[j].op = "checkPackageExists" => calls[j].ret = TRUE

\* C6: once the registry has answered 404, every later call for the same
\* (name, registry) within 5 minutes returns the negative result without
\* another request.
C6_NegativeCached ==
  \A i, j \in 1..Len(calls) :
    (/\ i < j
     /\ calls[i].network /\ calls[i].status = "404"
     /\ SameLookup(calls[i], calls[j])
     /\ calls[j].at - calls[i].at < cacheTimeout)
    => /\ ~calls[j].network
       /\ ~calls[j].threw
       /\ calls[j].info = NullInfo

\* C7: checkPackageExists returns false if and only if the registry answered
\* 404; a lookup that fails otherwise (timeout, non-404 response, registry
\* not supported) throws and does not return false.
C7_FalseOnlyOn404 ==
  \A k \in 1..Len(calls) :
    calls[k].op = "checkPackageExists" =>
      /\ (~calls[k].threw /\ calls[k].ret = FALSE) <=> calls[k].status = "404"
      /\ calls[k].status \in {"timeout", "500", "unsupported"} => calls[k].threw

\* ------------------------------------------------- the report of a run

\* A run has returned and the alerts its modules accumulated are still held.
RunEnded == pc \in {"idle", "scan"} /\ reports # <<>>

LastReport == Last(reports)

\* The (file, line, rule-id, message) tuple of an alert.
Tuple(alert) == <<alert.file, alert.line, alert.rule, alert.message>>

\* The places of the accumulated alerts that pass the severity filter.
Passing == {k \in 1..Len(allAlerts) : Includes(config.severity, allAlerts[k].severity)}

\* C1: the alerts of the Report are exactly the accumulated alerts whose
\* severity is in config.severity, up to deduplication: every returned alert
\* is an accumulated alert with a severity of the set, and every accumulated
\* alert with a severity of the set is returned (itself or the alert it
\* duplicates).
C1_SeverityFilter ==
  RunEnded =>
    /\ \A j \in 1..Len(LastReport.alerts) :
         /\ Includes(config.severity, LastReport.alerts[j].severity)
         /\ \E k \in 1..Len(allAlerts) : allAlerts[k] = LastReport.alerts[j]
    /\ \A k \in Passing :
         \E j \in 1..Len(LastReport.alerts) : Tuple(LastReport.alerts[j]) = Tuple(allAlerts[k])

\* A run whose modules accumulated alerts on both sides of the filter.
C1_Witness ==
  /\ RunEnded
  /\ Passing # {}
  /\ Passing # 1..Len(allAlerts)
  /\ LastReport.alerts # <<>>

\* The place in the accumulation of the first passing alert with the tuple.
FirstPlace(t) ==
  CHOOSE k \in Passing :
    /\ Tuple(allAlerts[k]) = t
    /\ \A i \in Passing : Tuple(allAlerts[i]) = t => k <= i

\* C2: the Report holds each (file, line, rule-id, message) tuple at most
\* once, the alert kept for a tuple is its first occurrence in accumulation
\* order, and the kept alerts are in accumulation order.
C2_Deduplicated ==
  RunEnded =>
    LET kept == LastReport.alerts
    IN /\ \A i, j \in 1..Len(kept) : Tuple(kept[i]) = Tuple(kept[j]) => i = j
       /\ \A j \in 1..Len(kept) :
            /\ \E k \in Passing : Tuple(allAlerts[k]) = Tuple(kept[j])
            /\ kept[j] = allAlerts[FirstPlace(Tuple(kept[j]))]
       /\ \A i, j \in 1..Len(kept) :
            i < j => FirstPlace(Tuple(kept[i])) < FirstPlace(Tuple(kept[j]))

\* A run in which two accumulated alerts that pass the filter share a tuple.
C2_Witness ==
  /\ RunEnded
  /\ \E i, j \in Passing : i < j /\ Tuple(allAlerts[i]) = Tuple(allAlerts[j])
  /\ Len(LastReport.alerts) > 1


\* ----------------------------------------------------------- ignore rules

\* The scanned path an alert cites.
PathOf(file) == CHOOSE p \in {files[k] : k \in 1..Len(files)} : JoinPath(p) = file

\* C3: no Report holds an alert of a rule-id R citing a file that matches a
\* glob pattern listed under ignoreRules[R], whatever the rule-id.
C3_IgnoredRuleNeverReported ==
  \A r \in 1..Len(reports) :
    \A j \in 1..Len(reports[r].alerts) :
      LET alert == reports[r].alerts[j]
      IN ~isRuleIgnored(alert.rule, PathOf(alert.file), config)

\* C4: ignore patterns are matched against the path relative to the scan
\* root: for every file the scanner returned and every rule-id R, a pattern
\* under ignoreRules[R] that matches the file's path below the root makes
\* isRuleIgnored(R, file, config) true.
C4_PatternsRelativeToRoot ==
  \A k \in 1..Len(files) :
    \A R \in DOMAIN config.ignoreRules :
      \A i \in 1..Len(config.ignoreRules[R]) :
        minimatch(EntryAt(tree, dir, files[k]).rel, config.ignoreRules[R][i])
          => isRuleIgnored(R, files[k], config)

\* ------------------------------------------------ lookups of the sentinel

\* C8: a dependency whose registry lookup failed with a timeout or a non-404
\* response gets no alert from the hallucination module.
C8_FailedLookupNoAlert ==
  \A k \in 1..Len(depLog) :
    (depLog[k].outcome.network /\ depLog[k].outcome.status \in {"timeout", "500"})
      => depLog[k].alerts = <<>>


\* ------------------------------------------------------ two runs compared

\* A Report without what analyze reads from the clock: the alerts' ids, the
\* scan's duration and its timestamp.
WithoutClock(report) ==
  [summary |-> report.summary,
   alerts |-> [j \in 1..Len(report.alerts) |->
                 [severity |-> report.alerts[j].severity, message |-> report.alerts[j].message,
                  file |-> report.alerts[j].file, line |-> report.alerts[j].line,
                  module |-> report.alerts[j].module, rule |-> report.alerts[j].rule]],
   directory |-> report.scanInfo.directory,
   filesScanned |-> report.scanInfo.filesScanned,
   config |-> report.scanInfo.config]

\* C9 as stated: two runs on the same directory with the same configuration
\* return identical Reports, alert ids and scan metadata included, whatever
\* the time of each run.
C9_IdenticalReports ==
  \A i, j \in 1..Len(reports) : reports[i] = reports[j]

\* C9 as amended: with the newborn check off, two runs on the same directory
\* with the same configuration and the same registry answers return Reports
\* that agree on the summary, on every field of every alert but its id, and
\* on the directory, the file count and the configuration of the scan.
C9_SameReportsButClock ==
  ~config.supplyChain.checkNewborn =>
    \A i, j \in 1..Len(reports) : WithoutClock(reports[i]) = WithoutClock(reports[j])

\* Two runs at different times with the newborn check off, both with alerts.
C9_Witness ==
  /\ ~config.supplyChain.checkNewborn
  /\ Len(reports) = 2
  /\ reports[1].alerts # <<>>
  /\ reports[1].scanInfo.timestamp # reports[2].scanInfo.timestamp
  /\ reports[1].alerts[1].id # reports[2].alerts[1].id

\* ------------------------------------------------- the order of the alerts

\* The file paths, rule-ids and messages of the scenarios' alerts, ascending
\* by code unit.
Ascending ==
  << "/go.mod",
     "/package.json",
     "/repo/go.mod",
     "/repo/package.json",
     "/repo/src/a.ts",
     "/repo/src/b.py",
     "/repo/tests/x/a.ts",
     "/src/a.ts",
     "/src/b.py",
     "/tests/x/a.ts",
     "AI Preamble Detected: Blind copy-paste of AI response detected",
     "Critical Vulnerability: JWT \"none\" algorithm detected. This allows token forgery.",
     "Hallucinated Package: ghost does not exist in npm",
     "Hallucinated Package: next does not exist in go",
     "Hallucinated Package: reacts does not exist in npm",
     "Hardcoded Secret: API Key detected",
     "Insecure Deserialization: eval/Function usage detected - potential RCE risk",
     "Insecure Deserialization: pickle usage detected - RCE vulnerability risk",
     "Insecure JWT Usage: jwt.decode() does not verify signatures. Use jwt.verify() instead.",
     "Magic Number detected: 42. Unexplained numeric literals reduce readability.",
     "Newborn Package: ghost is 0 days old (newly registered)",
     "Newborn Package: next is 0 days old (newly registered)",
     "Newborn Package: reacts is 0 days old (newly registered)",
     "Newborn Package: reacts is 1 days old (newly registered)",
     "Typosquatting Risk: next is similar to nuxt",
     "Typosquatting Risk: reacts is similar to react",
     "ai-preamble",
     "hardcoded-secret",
     "insecure-deserialization",
     "insecure-jwt",
     "insecure-jwt-none",
     "magic-number",
     "newborn-package",
     "phantom-package",
     "typosquat-risk" >>

Rank(s) == CHOOSE k \in 1..Len(Ascending) : Ascending[k] = s

\* a sorts at or before b by (file path, line, rule-id, message).
SortsBefore(a, b) ==
  \/ Rank(a.file) < Rank(b.file)
  \/ /\ a.file = b.file
     /\ \/ a.line < b.line
        \/ /\ a.line = b.line
           /\ \/ Rank(a.rule) < Rank(b.rule)
              \/ a.rule = b.rule /\ Rank(a.message) <= Rank(b.message)

\* C10 as stated: the alert list of every Report is sorted by (file path,
\* line, rule-id, message).
C10_SortedAlerts ==
  \A r \in 1..Len(reports) :
    \A j \in 1..(Len(reports[r].alerts) - 1) :
      SortsBefore(reports[r].alerts[j], reports[r].alerts[j + 1])

\* registerDefaultPlugins' order of the modules.
RegistrationOrder ==
  <<"HallucinationSentinel", "LazinessLinter", "SecuritySentinel", "ArchitectureScanner",
    "CostSentinel">>

Registered(module) == CHOOSE k \in 1..Len(RegistrationOrder) : RegistrationOrder[k] = module

\* C10 as amended: the alert list of every Report is in the order the alerts
\* were accumulated, the modules' alerts following each other in the
\* modules' registration order; it is not sorted.
C10_AccumulationOrder ==
  /\ \A r \in 1..Len(reports) :
       \A i, j \in 1..Len(reports[r].alerts) :
         i < j => Registered(reports[r].alerts[i].module)
                    <= Registered(reports[r].alerts[j].module)
  /\ RunEnded =>
       \A i, j \in 1..Len(LastReport.alerts) :
         i < j => \E k, l \in 1..Len(allAlerts) :
                    /\ k < l
                    /\ allAlerts[k] = LastReport.alerts[i]
                    /\ allAlerts[l] = LastReport.alerts[j]

\* A Report with alerts of two modules whose list is not sorted.
C10_Witness ==
  /\ RunEnded
  /\ \E i, j \in 1..Len(LastReport.alerts) :
       /\ i < j
       /\ LastReport.alerts[i].module # LastReport.alerts[j].module
       /\ ~SortsBefore(LastReport.alerts[i], LastReport.alerts[j])

\* ------------------------------------------------- claims on SpecProject

\* C11: when the analyze of an enabled module rejects, the remaining modules
\* still run and analyze returns a Report: no call of analyze ends with a
\* rejected promise.
C11_ModuleFailureIsolated == rejected = 0

\* The directory without the files whose read throws, what a run on it
\* reads, and the alerts its modules yield at this time and with this cache.
Present == SelectSeq(tree, LAMBDA e : e.rel \notin unreadable)

AbsentRunFiles == ReadFiles(scanDirectory(dir, Present, config), Present, dir, {})

AbsentRunAlerts ==
  (IF config.modules.hallucination
   THEN HallucinationAnalyze(cache, AbsentRunFiles, config, net, clock).alerts ELSE <<>>)
  \o (IF config.modules.laziness THEN LazinessAnalyze(AbsentRunFiles, config, clock) ELSE <<>>)
  \o (IF config.modules.security THEN SecurityAnalyze(AbsentRunFiles, config, clock) ELSE <<>>)
  \o (IF config.modules.architecture
      THEN ArchitectureAnalyze(AbsentRunFiles, config, clock) ELSE <<>>)
  \o (IF config.modules.cost THEN CostAnalyze(AbsentRunFiles, config, clock) ELSE <<>>)

Tuples(alerts) == [i \in 1..Len(alerts) |-> <<Tuple(alerts[i]), alerts[i].severity>>]

\* C12: a file whose read throws does not make analyze reject (a call that
\* rejects does so on an ignore rule that throws, before any read), and when
\* the five modules have run, the accumulated alerts are, field by field
\* except for the time in their ids, the alerts of a run on the directory
\* without that file.
C12_ReadFailureIsolated ==
  /\ rejected > 0 =>
       \E m \in {"laziness", "security", "architecture", "cost"} :
         analyzeRejects(m, files, config)
  /\ pc = "finish" => Tuples(allAlerts) = Tuples(AbsentRunAlerts)

\* The modules have run with src/a.ts unreadable: src/b.ts is reported for its
\* export f, which only src/a.ts imports.
C12_Witness ==
  /\ pc = "finish"
  /\ unreadable = {ModuleA.rel}
  /\ \E k \in 1..Len(allAlerts) :
       /\ allAlerts[k].rule = "unused-export"
       /\ allAlerts[k].message = "Unused Export: f is exported but never imported"
       /\ allAlerts[k].file = "/repo/src/b.ts"

\* --------------------------------------------------- the modules in series

\* The positions of analyze at which a module's tap is about to run, in the
\* order of the taps.
Stages == <<"hallucination", "laziness", "security", "architecture", "cost">>

\* C13: the modules run one after another in the order hallucination,
\* laziness, security, architecture, cost: when a module is about to start,
\* the accumulated list holds alerts of the modules before it only, and the
\* list is at all times grouped by module in that order.
C13_ModulesInSeries ==
  /\ \A k \in 1..Len(Stages) :
       pc = Stages[k] =>
         \A i \in 1..Len(allAlerts) : Registered(allAlerts[i].module) < k
  /\ \A i, j \in 1..Len(allAlerts) :
       i < j => Registered(allAlerts[i].module) <= Registered(allAlerts[j].module)

\* All modules have run and three of them have appended alerts.
C13_Witness ==
  /\ pc = "finish"
  /\ \E i, j, k \in 1..Len(allAlerts) :
       /\ allAlerts[i].module = "HallucinationSentinel"
       /\ allAlerts[j].module = "SecuritySentinel"
       /\ allAlerts[k].module = "ArchitectureScanner"

\* ------------------------------------------------ the default configuration

\* C14: under the default configuration the severity filter holds all four
\* severities, so a LOW alert the modules accumulated (magic-number,
\* unused-export) is in the Report.
C14_DefaultKeepsLow ==
  (RunEnded /\ rejected = 0 /\ config = DEFAULT_CONFIG) =>
    \A k \in 1..Len(allAlerts) :
      allAlerts[k].severity = LOW =>
        \E i \in 1..Len(LastReport.alerts) : LastReport.alerts[i] = allAlerts[k]

\* ------------------------------------------------------- phantom packages

\* C15: a dependency whose existence check returned false gets exactly one
\* alert, of rule phantom-package and severity CRITICAL, and so no newborn
\* and no typosquat alert.
C15_PhantomOnly ==
  \A k \in 1..Len(depLog) :
    ~depLog[k].outcome.exists =>
      /\ Len(depLog[k].alerts) = 1
      /\ depLog[k].alerts[1].rule = "phantom-package"
      /\ depLog[k].alerts[1].severity = CRITICAL

\* The existence check returned false for a dependency that is one edit away
\* from a top package, with the newborn check switched on.
C15_Witness ==
  /\ config.supplyChain.checkNewborn
  /\ \E k \in 1..Len(depLog) :
       /\ ~depLog[k].outcome.exists
       /\ findTyposquatMatch(depLog[k].outcome.name,
                             config.hallucination.typosquatLevenshteinDistance) # <<>>

\* ------------------------------------------------------------- typosquats

TyposquatAlerts(alerts) == SelectSeq(alerts, LAMBDA a : a.rule = "typosquat-risk")

\* The top packages at Levenshtein distance d from a name.
AtDistance(name, d) == {k \in 1..Len(topPackages) : distances[name][k] = d}

InString(line) ==
  {n \in 1..Len(Matches(line, "number")) :
     \E q \in 1..Len(Matches(line, "string")) :
       /\ Matches(line, "string")[q].s <= Matches(line, "number")[n].s
       /\ Matches(line, "number")[n].e <= Matches(line, "string")[q].e}

MagicNumberMessage(text) ==
  "Magic Number detected: " \o text \o ". Unexplained numeric literals reduce readability."

Reported(e, i, text) ==
  \E k \in 1..Len(allAlerts) :
    /\ allAlerts[k].rule = "magic-number"
    /\ allAlerts[k].file = JoinPath(Absolute(dir, e.rel))
    /\ allAlerts[k].line = i
    /\ allAlerts[k].message = MagicNumberMessage(text)

\* C17: when the architecture module has run, no numeric literal inside a
\* string literal is reported as a magic number, and every literal outside
\* the safe set and outside the strings of a line that is no comment, import
\* or declaration is reported.
C17_NoMagicNumberInString ==
  pc = "cost" =>
    \A f \in 1..Len(tree) :
      (tree[f].rel \notin unreadable /\ isSourceFile(tree[f].rel)) =>
        \A i \in 1..Len(tree[f].lines) :
          \A n \in 1..Len(Matches(tree[f].lines[i], "number")) :
            IF n \in InString(tree[f].lines[i])
            THEN ~Reported(tree[f], i, Matches(tree[f].lines[i], "number")[n].text)
            ELSE (/\ ~tree[f].lines[i].skip
                  /\ Matches(tree[f].lines[i], "number")[n].text \notin safeNumbers)
                   => Reported(tree[f], i, Matches(tree[f].lines[i], "number")[n].text)

\* ---------------------------------------------------- circular dependencies

\* The import graph the architecture module builds in this run.
SourceGraph ==
  buildImportGraph(SelectSeq(ReadFiles(files, tree, dir, unreadable),
                             LAMBDA f : isSourceFile(f.path)))

Keys(g) == {NodeKeys(g)[k] : k \in 1..Len(g.nodes)}

\* The dependency graph: file x imports file y.
Depends(g) ==
  UNION { { <<NodeKeys(g)[n],
              resolveImportPath(g, g.nodes[n].filePath, g.nodes[n].importedSymbols[i].path)>> :
              i \in 1..Len(g.nodes[n].importedSymbols) } :
          n \in 1..Len(g.nodes) }

RECURSIVE Grow(_, _)
Grow(g, S) ==
  IF {e[2] : e \in {d \in Depends(g) : d[1] \in S}} \subseteq S THEN S
  ELSE Grow(g, S \cup {e[2] : e \in {d \in Depends(g) : d[1] \in S}})

\* The files reachable from x along one import or more.
After(g, x) == Grow(g, {e[2] : e \in {d \in Depends(g) : d[1] = x}}) \cap Keys(g)

\* The strongly connected components of two files or more.
Components(g) ==
  { C \in { {y \in Keys(g) : y = x \/ (y \in After(g, x) /\ x \in After(g, y))} :
              x \in Keys(g) } :
      Cardinality(C) >= 2 }

CircularAlerts == {k \in 1..Len(allAlerts) : allAlerts[k].rule = "circular-dependency"}

\* The closed walks an alert may name: first file, ..., first file again.
Walks(g) == UNION { [1..m -> Keys(g)] : m \in 2..(Cardinality(Keys(g)) + 1) }

Names(k, walk) == allAlerts[k].message = CycleAlert(walk, 0).message

Vertices(walk) == {walk[i] : i \in 1..Len(walk)}

\* C18: when the architecture module has run, the vertex sets of the cycles
\* its circular-dependency alerts name are the strongly connected components
\* of two files or more of the dependency graph: every such component is
\* reported, and no self-loop and no part of a component is.
C18_CyclesAreComponents ==
  pc = "cost" =>
    /\ \A k \in CircularAlerts : \E walk \in Walks(SourceGraph) : Names(k, walk)
    /\ { Vertices(walk) : walk \in { w \in Walks(SourceGraph) :
                                       \E k \in CircularAlerts : Names(k, w) } }
         = Components(SourceGraph)

\* The file paths of the project in ascending order.
PathsAscending == <<"/repo/package.json", "/repo/src/a.ts", "/repo/src/b.ts">>

Smallest(C) ==
  PathsAscending[CHOOSE i \in 1..Len(PathsAscending) :
                   /\ PathsAscending[i] \in C
                   /\ \A j \in 1..(i - 1) : PathsAscending[j] \notin C]

\* C19: when the architecture module has run, every circular dependency is
\* reported by exactly one alert, and the alert's file is the smallest file
\* path of the cycle, whatever the order of the files.
C19_OneAlertPerCycle ==
  pc = "cost" =>
    \A C \in Components(SourceGraph) :
      /\ Cardinality({ k \in CircularAlerts :
                         \E walk \in Walks(SourceGraph) :
                           Names(k, walk) /\ Vertices(walk) = C }) = 1
      /\ \A k \in CircularAlerts :
           (\E walk \in Walks(SourceGraph) : Names(k, walk) /\ Vertices(walk) = C)
             => allAlerts[k].file = Smallest(C)

\* ------------------------------------------------------ scorecard lookups

\* C20: once the scorecard endpoint has answered 404 for a key, every later
\* getScore call for that key within the hour returns nothing and sends no
\* request.
C20_NotFoundCached ==
  \A i, j \in 1..Len(calls) :
    (/\ i < j
     /\ calls[i].op = "getScore" /\ calls[j].op = "getScore"
     /\ calls[i].key # "" /\ calls[j].key = calls[i].key
     /\ calls[i].network /\ calls[i].status = "404"
     /\ calls[j].at - calls[i].at < scorecardCacheTimeout)
      => (~calls[j].network /\ calls[j].ret = NullScore)

\* ------------------------------------------------- claims on SpecSources

\* The entries of the directory that the scanner listed.
Listed == {f \in 1..Len(tree) : Includes(files, Absolute(dir, tree[f].rel))}

HasPreamble(line) == \E q \in 1..Len(aiPreamblePatterns) : Test(line, aiPreamblePatterns[q])

\* C21: when the laziness module has run, every line with an AI preamble of
\* every listed source file is cited by an ai-preamble alert, whatever the
\* file's language: a file without a parser (.go, .rs, .vue, .svelte) loses
\* the AST checks only.
C21_RegexChecksInEveryLanguage ==
  (pc = "security" /\ config.modules.laziness /\ config.laziness.detectAIPreambles) =>
    \A f \in Listed :
      (/\ isSourceFile(tree[f].rel)
       /\ tree[f].rel \notin unreadable
       /\ ~isRuleIgnored("laziness", Absolute(dir, tree[f].rel), config)
       /\ ~isRuleIgnored("ai-preamble", Absolute(dir, tree[f].rel), config)) =>
        \A i \in 1..Len(tree[f].lines) :
          HasPreamble(tree[f].lines[i]) =>
            \E k \in 1..Len(allAlerts) :
              /\ allAlerts[k].rule = "ai-preamble"
              /\ allAlerts[k].file = JoinPath(Absolute(dir, tree[f].rel))
              /\ allAlerts[k].line = i

\* ----------------------------------------------------------- unused exports

\* Some file of the graph imports the name, or `*`, through a specifier that
\* resolves to the node.
ImportedFrom(g, k, name) ==
  \E n \in 1..Len(g.nodes) :
    \E i \in 1..Len(g.nodes[n].importedSymbols) :
      /\ resolveImportPath(g, g.nodes[n].filePath, g.nodes[n].importedSymbols[i].path)
           = NodeKeys(g)[k]
      /\ {name, "*"} \cap g.nodes[n].importedSymbols[i].symbols # {}

UnusedExportReported(file, name) ==
  \E a \in 1..Len(allAlerts) :
    /\ allAlerts[a].rule = "unused-export"
    /\ allAlerts[a].file = file
    /\ allAlerts[a].message = UnusedExportAlert(file, name).message

\* C23: when the architecture module has run (unused-export not ignored), an
\* unused-export alert names export E of file F exactly when no file imports
\* E or `*` through a path that resolves to F and the basename of F is none of
\* index.ts, index.js, main.ts, App.tsx.
C23_UnusedExportsExactly ==
  (pc = "cost" /\ config.modules.architecture /\ config.architecture.detectUnusedExports
     /\ "unused-export" \notin DOMAIN config.ignoreRules) =>
    \A k \in 1..Len(SourceGraph.nodes) :
      \A e \in 1..Len(SourceGraph.nodes[k].exports) :
        UnusedExportReported(NodeKeys(SourceGraph)[k], SourceGraph.nodes[k].exports[e])
          <=> (/\ ~ImportedFrom(SourceGraph, k, SourceGraph.nodes[k].exports[e])
               /\ basename(SourceGraph.nodes[k].filePath) \notin entryPoints)

\* ------------------------------------------------------------ python imports

\* The node the graph holds for an entry of the directory.
NodeOf(g, e) ==
  g.nodes[CHOOSE k \in 1..Len(g.nodes) : g.nodes[k].filePath = Absolute(dir, e.rel)]

\* C24: when the architecture module has run, the graph node of every python
\* file holds, for every statement `from X import ...` of the file whose X
\* starts with `.`, the path X with the statement's names as its symbols, and
\* nothing for a statement whose X does not start with `.`.
C24_PythonRelativeImports ==
  pc = "cost" =>
    \A f \in Listed :
      (detectLanguage(tree[f].rel) = "python" /\ tree[f].rel \notin unreadable) =>
        \A i \in 1..Len(tree[f].imports) :
          IF startsWith(JoinPath(tree[f].imports[i].path), ".")
          THEN /\ Includes(NodeOf(SourceGraph, tree[f]).imports,
                           JoinPath(tree[f].imports[i].path))
               /\ \E j \in 1..Len(NodeOf(SourceGraph, tree[f]).importedSymbols) :
                    /\ NodeOf(SourceGraph, tree[f]).importedSymbols[j].path
                         = tree[f].imports[i].path
                    /\ tree[f].imports[i].symbols
                         \subseteq NodeOf(SourceGraph, tree[f]).importedSymbols[j].symbols
          ELSE ~Includes(NodeOf(SourceGraph, tree[f]).imports,
                         JoinPath(tree[f].imports[i].path))

\* ------------------------------------------------------- line by line rules

\* An accumulated alert of the rule cites the line of the entry.
Cited(rule, e, i) ==
  \E k \in 1..Len(allAlerts) :
    /\ allAlerts[k].rule = rule
    /\ allAlerts[k].file = JoinPath(Absolute(dir, e.rel))
    /\ allAlerts[k].line = i

\* The listed source files the security module reads and analyses.
SecurityRead ==
  {f \in Listed : /\ isSourceFile(tree[f].rel)
                  /\ tree[f].rel \notin unreadable
                  /\ ~isRuleIgnored("security", Absolute(dir, tree[f].rel), config)}

\* C25: when the security module has run, every line with `jwt.decode(` is
\* cited by an insecure-jwt alert, and every line with `pickle.loads(` of a
\* python file or `eval(` of a js/ts file by an insecure-deserialization
\* alert, whatever the lines before it hold.
C25_EveryMatchingLineCited ==
  (pc = "architecture" /\ config.modules.security) =>
    \A f \in SecurityRead :
      \A i \in 1..Len(tree[f].lines) :
        /\ (/\ config.security.detectInsecureJWT
            /\ ~isRuleIgnored("insecure-jwt", Absolute(dir, tree[f].rel), config)
            /\ Test(tree[f].lines[i], "jwt.decode("))
             => Cited("insecure-jwt", tree[f], i)
        /\ (/\ config.security.detectInsecureDeserialization
            /\ ~isRuleIgnored("insecure-deserialization", Absolute(dir, tree[f].rel), config)
            /\ \/ extname(tree[f].rel) = ".py" /\ Test(tree[f].lines[i], "pickle.loads(")
               \/ /\ detectLanguage(tree[f].rel) \in {"javascript", "typescript"}
                  /\ Test(tree[f].lines[i], "eval("))
             => Cited("insecure-deserialization", tree[f], i)

\* ----------------------------------------------------------- server actions

\* The line declares an exported async function whose text, up to the line
\* that closes its braces, holds no validation marker.
UnvalidatedAction(lines, i) ==
  /\ Test(lines[i], "export async function")
  /\ ~hasInputValidation(extractFunctionContent(lines, i))

\* C26: when the security module has run, in a js/ts file every line that
\* declares an exported async function without a validation marker in its
\* body and comes after a "use server" directive line is cited by a
\* react2shell alert, whatever lines lie in between, and a file without a
\* directive line gets no react2shell alert.
C26_ServerActionsFlagged ==
  (pc = "architecture" /\ config.modules.security /\ config.security.detectReact2Shell) =>
    \A f \in SecurityRead :
      (/\ detectLanguage(tree[f].rel) \in {"javascript", "typescript"}
       /\ ~isRuleIgnored("react2shell", Absolute(dir, tree[f].rel), config)) =>
        /\ \A d, i \in 1..Len(tree[f].lines) :
             (d < i /\ Test(tree[f].lines[d], "use server")
                /\ UnvalidatedAction(tree[f].lines, i))
               => Cited("react2shell", tree[f], i)
        /\ (\A d \in 1..Len(tree[f].lines) : ~Test(tree[f].lines[d], "use server"))
             => \A i \in 1..Len(tree[f].lines) : ~Cited("react2shell", tree[f], i)

\* ------------------------------------------------------------- mixed naming

\* The line lies in an interface block: from an interface declaration's line
\* to the line that closes its braces.
InInterface(lines, i) ==
  \E d \in 1..i : Test(lines[d], "interface") /\ i <= functionEnd(lines, d, 0, FALSE)

\* The listed source files the architecture module reads and analyses.
ArchitectureRead ==
  {f \in Listed : /\ isSourceFile(tree[f].rel)
                  /\ tree[f].rel \notin unreadable
                  /\ ~isRuleIgnored("architecture", Absolute(dir, tree[f].rel), config)}

CitedTimes(rule, e, i) ==
  Cardinality({k \in 1..Len(allAlerts) :
                 /\ allAlerts[k].rule = rule
                 /\ allAlerts[k].file = JoinPath(Absolute(dir, e.rel))
                 /\ allAlerts[k].line = i})

\* C27: when the architecture module has run, in a js/ts file no line of an
\* interface block and no `type X =` line gets a mixed-naming alert, and
\* every other line with a camelCase and a snake_case identifier gets exactly
\* one, the lines that follow an interface block (one written on a single
\* line too) included.
C27_MixedNamingOutsideContracts ==
  (pc = "cost" /\ config.modules.architecture /\ config.architecture.detectMixedNaming) =>
    \A f \in ArchitectureRead :
      (/\ detectLanguage(tree[f].rel) \in {"javascript", "typescript"}
       /\ ~isRuleIgnored("mixed-naming", Absolute(dir, tree[f].rel), config)) =>
        \A i \in 1..Len(tree[f].lines) :
          CitedTimes("mixed-naming", tree[f], i)
            = IF /\ ~InInterface(tree[f].lines, i)
                 /\ ~Test(tree[f].lines[i], "type alias")
                 /\ Test(tree[f].lines[i], "camelCase")
                 /\ Test(tree[f].lines[i], "snake_case")
              THEN 1 ELSE 0

\* ------------------------------------------- top packages as dependencies

\* C28: a dependency whose name is an entry of the top-package list gets no
\* typosquat-risk alert.
C28_TopPackageNeverTyposquat ==
  \A k \in 1..Len(depLog) :
    Includes(topPackages, depLog[k].outcome.name) => TyposquatAlerts(depLog[k].alerts) = <<>>

\* ----------------------------------------------------------------- alert ids

\* C30: in every Report two alerts that differ in file, line, rule or message
\* have different ids.
C30_IdsIdentifyAlerts ==
  \A r \in 1..Len(reports) :
    \A i, j \in 1..Len(reports[r].alerts) :
      Tuple(reports[r].alerts[i]) # Tuple(reports[r].alerts[j])
        => reports[r].alerts[i].id # reports[r].alerts[j].id

\* ------------------------------------------------- overlapping analyses

\* The graph of a call's own file list.
OwnGraph(t) == buildImportGraph(tasks[t].list)

\* C29: when two analyze calls on the same engine overlap, the circular-
\* dependency and unused-export alerts of each call are those of the import
\* graph of the call's own file list, never of a graph that the other call
\* built or reset.
C29_OverlappingCallsKeepTheirGraph ==
  \A t \in Callers :
    tasks[t].pc = "done" =>
      tasks[t].cross = crossFileAlerts(OwnGraph(t), config, clock)

\* C22: within one architecture analysis the import graph holds a node for
\* every readable source file of the list before detectCircularDependencies
\* or detectUnusedExports reads it, and the graph the checks read is the graph
\* as it was at the end of its construction.
C22_GraphBuiltBeforeCrossFileChecks ==
  \A t \in Callers :
    tasks[t].pc = "done" =>
      /\ \A j \in 1..Len(tasks[t].list) :
           ~tasks[t].list[j].failed =>
             \E k \in 1..Len(tasks[t].read.nodes) :
               tasks[t].read.nodes[k].filePath = tasks[t].list[j].path
      /\ tasks[t].read = tasks[t].built

====
